---- MODULE Spec2Model ----
(***************************************************************************)
(* Model of the generation-serving core of offsec-ai-companion:            *)
(*   - LLMQueue (services/queue.ts): the concurrency gate                  *)
(*   - generateCompletion (services/ai.ts): the provider fallback chain    *)
(*   - getCached / setCache (services/cache.ts): the response cache        *)
(*   - RAGMCP.handle / llmOnlyAnswer (mcp/rag): the two generation phases  *)
(*     of one ask request; ExplainMCP.handle (mcp/explain)                 *)
(*   - getChromaCollection / queryDocuments / addDocuments (db/chroma.ts): *)
(*     the vector store client, and IngestionMCP.handle's use of it        *)
(* The program is single-threaded and cooperative: every action below is   *)
(* one synchronous run of code between two awaits.                         *)
(***************************************************************************)
EXTENDS Integers, Sequences, FiniteSets, TLC

\* ---------------------------------------------------------------- constants
maxConcurrent == 2
RATE_LIMIT_COOLDOWN_MS == 30000
DEFAULT_TTL_MS == 300000
MAX_ENTRIES == 200
CLEANUP_INTERVAL_MS == 60000
RETRY_INTERVAL_MS == 60000
\* config.rateLimit defaults, used by `new RateLimiter()`
perUser == 10
windowMs == 60000
\* config.rag.rerankTop
rerankTop == 5

\* ------------------------------------------------------------------- bounds
NumProviders == 2
NumCallers == 2
NumFloodCallers == 3
NumGateCallers == 5
NumAskers == 2
MaxCalls == 2
NumQueries == 2
TickMs == 15000
MaxTime == 45000
MaxRows == 1
CacheTickMs == 30000
MaxCacheTime == 180000
MaxFresh == 297
NumStoreCallers == 2
MaxStoreCalls == 2
StoreTickMs == 30000
MaxStoreTime == 135000
NumUsers == 2
RateTickMs == 30000
MaxRateTime == 165000
MaxOver == 2
MaxRawLen == 6
MaxDrainCalls == 1
MaxChunks == 6
MaxTerms == 1
NumRequests == 3

Callers == 1..NumCallers
FloodCallers == 1..NumFloodCallers
GateCallers == 1..NumGateCallers
Askers == 1..NumAskers
StoreCallers == 1..NumStoreCallers

\* PROVIDER_PRIORITY: the slots that had credentials at module load, in order.
\* It is computed once and never recomputed.
PROVIDER_PRIORITY == [i \in 1..NumProviders |-> i]
Slots == {PROVIDER_PRIORITY[i] : i \in 1..Len(PROVIDER_PRIORITY)}

\* buildProvider: a slot with credentials starts unlimited and active.
buildProvider == [rateLimitedUntil |-> 0, isActive |-> TRUE]

\* ------------------------------------------------ provider answers (inputs)
\* response.choices[0]?.message?.content: missing (null/undefined) or a string,
\* kept as its sequence of characters.
NoContent == [present |-> FALSE, chars |-> <<>>]
Str(s) == [present |-> TRUE, chars |-> s]
Contents == {NoContent, Str(<<>>), Str(<<" ">>), Str(<<"a">>)}
Whitespace == {" ", "\t", "\n"}

\* A rejected create(): status is apiErr.status ?? apiErr.code ?? error.code
\* (0 stands for "no status at all"), message is the error message.
ApiErrors ==
    { [status |-> 429, message |-> "Rate limit"],
      [status |-> 402, message |-> "Payment required"],
      [status |-> 404, message |-> "model not found"],
      [status |-> 500, message |-> "internal error"],
      [status |-> 503, message |-> "unavailable"],
      [status |-> 0, message |-> "Request timeout"],
      [status |-> 0, message |-> "ECONNRESET"],
      [status |-> 0, message |-> "Primary provider unavailable"] }

\* the catch block's classification of an error
isRateLimit(e) == e.status = 429
isPaymentRequired(e) == e.status = 402
isServerError(e) == e.status \in {500, 502, 503}
\* message.includes('timeout') || message.includes('ETIMEDOUT')
isTimeout(e) == e.message \in {"Request timeout"}
\* message.includes('ECONNRESET') || ... 'socket hang up'
isConnectionError(e) == e.message \in {"ECONNRESET"}
\* timeout / connection error / 5xx: the failures the code leaves without cooldown
isTransient(e) == isServerError(e) \/ isTimeout(e) \/ isConnectionError(e)

\* JS truthiness of the completion text: `!text`
isFalsy(c) == ~c.present \/ Len(c.chars) = 0
\* blank: nothing but whitespace (the empty string included)
IsBlank(c) == \A i \in 1..Len(c.chars) : c.chars[i] \in Whitespace

VARIABLES
    now,          \* Date.now()
    running,      \* LLMQueue.running
    waiting,      \* LLMQueue.waiting (callers suspended in acquire, in order)
    providers,    \* providers[slot] = [rateLimitedUntil, isActive]
    cache,        \* the cache Map, in insertion order: <<[key, value, expiresAt]>>
    pc,           \* where each caller is
    phase,        \* which generateCompletion call of the request: "rag" | "llm"
    cur,          \* index in PROVIDER_PRIORITY of the attempt in flight
    attempted,    \* generateCompletion's local `attempted`
    genResult,    \* how the caller's current generateCompletion call ended
    outcome,      \* how the request ended
    calls,        \* generateCompletion calls the caller has made so far
    \* -- history (not program state) --
    skipped,        \* slots the current call found cooling and skipped
    rlAnswered,     \* slots that answered 429/402 to the current call
    disabledAtCall, \* slots already disabled (404) when the current call began
    reqAttempts,    \* attempts per slot over the whole request
    pendingRL,      \* per slot: times of 429/402 answers not yet followed by a
                    \* consultation at or after that time + cooldown
    everTransient,  \* slots that have failed by timeout/connection/5xx
    ticket,         \* arrival number of the caller's acquire()
    arrivals,       \* number of acquire() calls so far
    served,         \* callers resumed from the wait list, in order
    \* -- db/chroma.ts (module state) --
    collection,     \* `collection` is non-null
    isRagDisabled,
    lastRetryAt,
    op,             \* the vector-store operation each caller is in: "query" | "ingest"
    \* -- history of the vector store --
    lastConnFailAt,  \* time of the latest failed connection attempt that no call
                     \* made after its cooldown has followed yet (0: none)
    lastQueryFailAt, \* time of the latest failed query (0: none)
    \* -- services/cache.ts: the cleanup timer, and the direct callers' view --
    nextSweep,      \* when the setInterval callback is due next
    got,            \* the last getCached call: [key, value]
    nextKey,        \* number of the next fresh key a caller will write
    \* -- history of the cache --
    recency,        \* keys present, least recently accessed first
    live,           \* per key: the last setCache of it, unless since evicted
    \* -- history of an ask request --
    req,            \* what the request found and ran before generating
    \* -- utils/rateLimit.ts: RateLimiter --
    limits,         \* the `limits` Map: per user, [present, count, resetAt]
    checked,        \* the last check() call: [user, blocked]
    \* -- history of the rate limiter --
    window,         \* per user: start of the current window and calls made in it
    \* -- RAGMCP.parseJSON --
    rawResponse,    \* the raw model output handed to parseJSON (input)
    parsed,         \* what the parseJSON call did: returned a value, or threw
    \* -- RAGMCP.ragPipeline, steps 3 to 7 --
    results,        \* the rows queryDocuments returned (input): per row its
                    \* distance and the number of query terms its content holds
    scored,         \* what scoring made of them: citations and confidence
    \* -- MCPOrchestrator and the MCP modules it runs --
    task,           \* per request: its kind, inputs, handle's data, execute's
                    \* response and what the orchestrator returned
    jobs,           \* the microtask queue: continuations ready to run, in order
    lastConfidence  \* RAGMCP.lastConfidence (one field for all requests)

vars == <<now, running, waiting, providers, cache, pc, phase, cur, attempted,
          genResult, outcome, calls, skipped, rlAnswered, disabledAtCall, reqAttempts,
          pendingRL, everTransient, ticket, arrivals, served,
          collection, isRagDisabled, lastRetryAt, op, lastConnFailAt, lastQueryFailAt,
          nextSweep, got, nextKey, recency, live, req,
          limits, checked, window, rawResponse, parsed,
          results, scored, task, jobs, lastConfidence>>

limiterVars == <<limits, checked, window>>

\* users of the rate limiter, the time its driver covers, and how far past
\* the limit a user's counter is driven
Users == 1..NumUsers
NoEntry == [present |-> FALSE, count |-> 0, resetAt |-> 0]
NoCheck == [user |-> 0, blocked |-> FALSE]
NoWindow == [open |-> FALSE, start |-> 0, calls |-> 0]
NotScored == [done |-> FALSE, citations |-> <<>>, confidence |-> 0]
\* handle's result (null when absent), execute's MCPResponse, and what the
\* orchestrator's handler gave its caller
NoData == [present |-> FALSE, confidence |-> 0, answer |-> <<>>]
Data(c, a) == [present |-> TRUE, confidence |-> c, answer |-> a]
NoResponse == [done |-> FALSE, rejected |-> FALSE, success |-> FALSE, data |-> NoData,
               confidence |-> 0]
NotReturned == [kind |-> "none", data |-> NoData]
NoTask == [kind |-> "none", chunks |-> <<>>, history |-> "-", threw |-> FALSE,
           data |-> NoData, response |-> NoResponse, result |-> NotReturned]
NotParsed == [end |-> "none", by |-> 0, hasAnswer |-> FALSE, answer |-> <<>>, lists |-> "none"]
parseVars == <<rawResponse, parsed>>
scoreVars == <<results, scored>>
orchVars == <<task, jobs, lastConfidence>>
otherVars == <<limiterVars, parseVars, scoreVars, orchVars>>
storeVars == <<collection, isRagDisabled, lastRetryAt, op, lastConnFailAt, lastQueryFailAt>>
cacheAux == <<nextSweep, got, nextKey, recency, live>>

NoResult == [kind |-> "none", text |-> <<>>]
Raised == [kind |-> "raised", text |-> <<>>]
Returned(c) == [kind |-> "text", text |-> c.chars]

\* ------------------------------------------------------- LLMQueue (the gate)
acquireGrants_offByOne(r) == r <= maxConcurrent

\* acquire: `if (this.running < this.maxConcurrent)`
acquireGrants(r) == r < maxConcurrent

nextWaiter_pop(w) == Len(w)

\* release: `this.waiting.shift()` takes the waiter at this position
nextWaiter(w) == 1

RemoveAt(w, i) == SubSeq(w, 1, i - 1) \o SubSeq(w, i + 1, Len(w))

\* The synchronous body of LLMQueue.acquire run by caller p: take a slot at
\* once, or push a waiter and stay suspended.
acquire(p) ==
    /\ IF acquireGrants(running)
          THEN /\ running' = running + 1
               /\ waiting' = waiting
               /\ pc' = [pc EXCEPT ![p] = "acquired"]
          ELSE /\ running' = running
               /\ waiting' = Append(waiting, p)
               /\ pc' = [pc EXCEPT ![p] = "waiting"]

release_leak(p, after) ==
    /\ running' = running
    /\ waiting' = waiting
    /\ pc' = [pc EXCEPT ![p] = after]

\* LLMQueue.release run by caller p, who then continues at `after`: hand the
\* slot to a waiter (running unchanged) or give it back.
release(p, after) ==
    IF Len(waiting) > 0
       THEN LET i == nextWaiter(waiting) IN
            /\ running' = running
            /\ waiting' = RemoveAt(waiting, i)
            /\ pc' = [pc EXCEPT ![p] = after, ![waiting[i]] = "acquired"]
       ELSE /\ running' = running - 1
            /\ waiting' = waiting
            /\ pc' = [pc EXCEPT ![p] = after]

\* ------------------------------------------------ services/ai.ts: providers
cooling_strict(prov, key, t) ==
    prov[key].rateLimitedUntil > 0 /\ ~(t > prov[key].rateLimitedUntil)

\* `if (provider.rateLimitedUntil > 0) { if (now >= until) {reset} else {continue} }`
cooling(prov, key, t) ==
    prov[key].rateLimitedUntil > 0 /\ ~(t >= prov[key].rateLimitedUntil)

markRateLimited(prov, key, t) ==
    [prov EXCEPT ![key].rateLimitedUntil = t + RATE_LIMIT_COOLDOWN_MS]

handleError_cooldownAll(prov, key, e, t) ==
    IF e.status = 404
       THEN [prov EXCEPT ![key].isActive = FALSE]
       ELSE markRateLimited(prov, key, t)

\* the catch block of generateCompletion: what an error does to the providers
handleError(prov, key, e, t) ==
    IF isRateLimit(e) \/ isPaymentRequired(e)
       THEN markRateLimited(prov, key, t)
       ELSE IF e.status = 404
               THEN [prov EXCEPT ![key].isActive = FALSE]
               ELSE prov

LoopLast_short == Len(PROVIDER_PRIORITY) - 1

\* `for (const key of PROVIDER_PRIORITY)`: the last index the loop visits
LoopLast == Len(PROVIDER_PRIORITY)

\* the loop from index i on: the first index whose provider is not skipped,
\* or LoopLast + 1 when the loop runs out
RECURSIVE nextAttempt(_, _, _)
nextAttempt(prov, i, t) ==
    IF i > LoopLast THEN i
    ELSE IF cooling(prov, PROVIDER_PRIORITY[i], t) THEN nextAttempt(prov, i + 1, t)
    ELSE i

exhausted_swallow == Returned(Str(<<>>))

\* after the loop: `throw new LLMError('all', ...)`
exhausted == Raised

\* One synchronous run of the provider loop by caller p, from index `from`,
\* on provider state prov (pend: the history pendingRL to start from): skip the
\* cooling providers, then either start the next attempt (await create()) or
\* fall out of the loop, throw, and release the slot in `finally`.
runLoop(p, from, prov, pend) ==
    LET i == nextAttempt(prov, from, now)
        skips == {PROVIDER_PRIORITY[j] : j \in from..(i - 1)}
        consulted == skips \cup (IF i <= LoopLast THEN {PROVIDER_PRIORITY[i]} ELSE {})
    IN  /\ skipped' = [skipped EXCEPT ![p] = @ \cup skips]
        /\ pendingRL' = [k \in Slots |->
                           IF k \in consulted
                              THEN {t \in pend[k] : now < t + RATE_LIMIT_COOLDOWN_MS}
                              ELSE pend[k]]
        /\ IF i > LoopLast
              THEN /\ providers' = prov
                   /\ genResult' = [genResult EXCEPT ![p] = exhausted]
                   /\ release(p, "settled")
                   /\ cur' = [cur EXCEPT ![p] = 0]
                   /\ UNCHANGED <<calls, attempted, reqAttempts>>
              ELSE LET key == PROVIDER_PRIORITY[i] IN
                   /\ providers' = [prov EXCEPT ![key].rateLimitedUntil = 0]
                   /\ attempted' = [attempted EXCEPT ![p] = Append(@, key)]
                   /\ reqAttempts' = [reqAttempts EXCEPT ![p][key] = @ + 1]
                   /\ cur' = [cur EXCEPT ![p] = i]
                   /\ pc' = [pc EXCEPT ![p] = "inflight"]
                   /\ UNCHANGED <<calls, running, waiting, genResult>>

\* generateCompletion up to `await llmQueue.acquire()`
enterGenerate(p, ph) ==
    /\ phase' = [phase EXCEPT ![p] = ph]
    /\ attempted' = [attempted EXCEPT ![p] = <<>>]
    /\ genResult' = [genResult EXCEPT ![p] = NoResult]
    /\ skipped' = [skipped EXCEPT ![p] = {}]
    /\ rlAnswered' = [rlAnswered EXCEPT ![p] = {}]
    /\ disabledAtCall' = [disabledAtCall EXCEPT ![p] = {k \in Slots : ~providers[k].isActive}]
    /\ acquire(p)
    /\ UNCHANGED <<now, providers, cur, reqAttempts, pendingRL, everTransient,
                   ticket, arrivals, served>>

\* A caller whose awaited promise has resolved (the acquire was granted, or
\* generateCompletion settled) continues in a microtask: it runs before any
\* I/O callback or timer, so no provider answer arrives and no time passes
\* while one is pending.
MicrotaskPending == \E q \in DOMAIN pc : pc[q] \in {"acquired", "settled"}

\* generateCompletion after the acquire resolved: the loop from its start
Resume(p) ==
    /\ UNCHANGED <<storeVars, cacheAux, req, otherVars>>
    /\ pc[p] = "acquired"
    /\ runLoop(p, 1, providers, pendingRL)
    /\ UNCHANGED <<calls, now, cache, phase, outcome, rlAnswered, disabledAtCall, everTransient,
                   ticket, arrivals, served>>

\* the provider in flight answers with a completion whose content is c
Respond(p, c) ==
    /\ UNCHANGED <<storeVars, cacheAux, req, otherVars>>
    /\ pc[p] = "inflight"
    /\ ~MicrotaskPending
    /\ IF isFalsy(c)
          THEN runLoop(p, cur[p] + 1, providers, pendingRL)
          ELSE /\ genResult' = [genResult EXCEPT ![p] = Returned(c)]
               /\ release(p, "settled")
               /\ cur' = [cur EXCEPT ![p] = 0]
               /\ UNCHANGED <<calls, providers, attempted, reqAttempts, skipped, pendingRL>>
    /\ UNCHANGED <<calls, now, cache, phase, outcome, rlAnswered, disabledAtCall, everTransient,
                   ticket, arrivals, served>>

\* the provider in flight fails with error e (the catch block, then `continue`)
Reject(p, e) ==
    /\ UNCHANGED <<storeVars, cacheAux, req, otherVars>>
    /\ pc[p] = "inflight"
    /\ ~MicrotaskPending
    /\ LET key == PROVIDER_PRIORITY[cur[p]]
           rl == isRateLimit(e) \/ isPaymentRequired(e)
       IN  /\ rlAnswered' = [rlAnswered EXCEPT ![p] = IF rl THEN @ \cup {key} ELSE @]
           /\ everTransient' = IF isTransient(e) THEN everTransient \cup {key}
                                                 ELSE everTransient
           /\ runLoop(p, cur[p] + 1, handleError(providers, key, e, now),
                      IF rl THEN [pendingRL EXCEPT ![key] = @ \cup {now}] ELSE pendingRL)
    /\ UNCHANGED <<calls, now, cache, phase, outcome, disabledAtCall, ticket, arrivals, served>>

\* ------------------------------------------------- services/cache.ts (Map)
CacheIndex(c, key) ==
    IF \E i \in 1..Len(c) : c[i].key = key
       THEN CHOOSE i \in 1..Len(c) : c[i].key = key
       ELSE 0

\* getCached: the value returned (NoContent for null) ...
getCachedValue(c, key, t) ==
    LET i == CacheIndex(c, key) IN
    IF i = 0 THEN NoContent
    ELSE IF t > c[i].expiresAt THEN NoContent
    ELSE Str(c[i].value)

getCachedMap_keep(c, key, t) ==
    LET i == CacheIndex(c, key) IN
    IF i = 0 \/ t > c[i].expiresAt THEN c
    ELSE Append(RemoveAt(c, i), c[i])

\* ... and the Map it leaves: expired entry deleted, live entry moved to the end
getCachedMap(c, key, t) ==
    LET i == CacheIndex(c, key) IN
    IF i = 0 THEN c
    ELSE IF t > c[i].expiresAt THEN RemoveAt(c, i)
    ELSE Append(RemoveAt(c, i), c[i])

\* setCache: evict the first key of the Map when full (`if (lruKey)` guards the
\* delete), then Map.set (an existing key keeps its position)
setCache(c, key, value, ttlMs, t) ==
    LET c1 == IF Len(c) >= MAX_ENTRIES
                 THEN (IF Len(c[1].key) > 0 THEN Tail(c) ELSE c)
                 ELSE c
        e == [key |-> key, value |-> value, expiresAt |-> t + ttlMs]
        i == CacheIndex(c1, key)
    IN  IF i = 0 THEN Append(c1, e) ELSE [c1 EXCEPT ![i] = e]

sweep_none(c, t) == c

\* the cleanupTimer callback: delete every entry with `now > entry.expiresAt`
sweep(c, t) == SelectSeq(c, LAMBDA e : ~(t > e.expiresAt))

\* the keys of the Map
Keys(c) == {c[i].key : i \in 1..Len(c)}

\* The keys direct callers of getCached / setCache use (inputs): the empty
\* string and "a", read and written at will, and fresh keys "k001", "k002", ...
\* each written once.
HotKeys == {<<>>, <<"a">>}
Digits == <<"0", "1", "2", "3", "4", "5", "6", "7", "8", "9">>
KeyOf(n) == <<"k", Digits[((n \div 100) % 10) + 1], Digits[((n \div 10) % 10) + 1],
              Digits[(n % 10) + 1]>>
Values == {<<>>, <<"v">>}
Ttls == {CacheTickMs, CLEANUP_INTERVAL_MS}
FillSize == (MAX_ENTRIES \div 2) - 1

\* a caller's loop of n setCache calls on the fresh keys from number k on
RECURSIVE fillCache(_, _, _, _, _)
fillCache(c, k, n, ttlMs, t) ==
    IF n = 0 THEN c
    ELSE IF n = 1 THEN setCache(c, KeyOf(k), <<"f">>, ttlMs, t)
    ELSE LET h == n \div 2
             first == fillCache(c, k, h, ttlMs, t)
         IN  IF Len(first) > 0 THEN fillCache(first, k + h, n - h, ttlMs, t) ELSE first

NoGet == [called |-> FALSE, key |-> <<>>, value |-> NoContent]
NotWritten == [written |-> FALSE, value |-> <<>>, at |-> 0, ttl |-> 0]

\* String.prototype.toLowerCase / trim on the characters the model uses
LowerChar(ch) == IF ch = "X" THEN "x" ELSE IF ch = "Y" THEN "y" ELSE ch
toLowerCase(s) == [i \in 1..Len(s) |-> LowerChar(s[i])]
RECURSIVE trimStart(_)
trimStart(s) == IF Len(s) > 0 /\ s[1] \in Whitespace THEN trimStart(Tail(s)) ELSE s
RECURSIVE trimEnd(_)
trimEnd(s) == IF Len(s) > 0 /\ s[Len(s)] \in Whitespace
                 THEN trimEnd(SubSeq(s, 1, Len(s) - 1)) ELSE s
trim(s) == trimEnd(trimStart(s))

\* makeCacheKey: `${command}:${level}:${query.toLowerCase().trim()}`
makeCacheKey(command, query, level) ==
    command \o <<":">> \o level \o <<":">> \o trim(toLowerCase(query))

\* the questions asked (inputs): caller p asks QueryOf(p) at LevelOf(p)
Queries == << <<"x">>, <<"X", " ">>, <<"y">> >>
QueryOf(p) == Queries[((p - 1) % NumQueries) + 1]
LevelOf(p) == <<"b">>
AskCommand == <<"a", "s", "k">>
ExplainCommand == <<"e", "x", "p", "l", "a", "i", "n">>

\* --------------------------------------------------- RAGMCP (one ask request)
NoRequest == [cacheHit |-> FALSE, embedded |-> FALSE, queried |-> FALSE, grounded |-> FALSE]

\* the cache holds an unexpired entry under this key
Unexpired(c, key, t) == \E i \in 1..Len(c) : c[i].key = key /\ ~(t > c[i].expiresAt)

Answer(kind, raw) == [kind |-> kind, raw |-> raw]
NoAnswer == Answer("none", <<>>)

\* the request is over: the result is handed to the caller and the locals of
\* the call go out of scope
finish(p, ans) ==
    /\ outcome' = [outcome EXCEPT ![p] = ans]
    /\ pc' = [pc EXCEPT ![p] = "done"]
    /\ phase' = [phase EXCEPT ![p] = "rag"]
    /\ attempted' = [attempted EXCEPT ![p] = <<>>]
    /\ genResult' = [genResult EXCEPT ![p] = NoResult]
    /\ skipped' = [skipped EXCEPT ![p] = {}]
    /\ rlAnswered' = [rlAnswered EXCEPT ![p] = {}]
    /\ disabledAtCall' = [disabledAtCall EXCEPT ![p] = {}]
    /\ reqAttempts' = [reqAttempts EXCEPT ![p] = [k \in Slots |-> 0]]
    /\ UNCHANGED <<calls, now, running, waiting, providers, cur, pendingRL, everTransient,
                   ticket, arrivals, served>>

isHit_never(cached) == FALSE

\* `if (cached)` on what getCached returned
isHit(cached) == ~isFalsy(cached)

\* llmOnlyAnswer up to its first await: the cache lookup, then either the
\* cached answer (`if (cached)`) or a generateCompletion call
llmOnlyAnswer(p) ==
    LET key == makeCacheKey(AskCommand, QueryOf(p), LevelOf(p))
        cached == getCachedValue(cache, key, now)
    IN  /\ cache' = getCachedMap(cache, key, now)
        /\ IF isHit(cached)
              THEN finish(p, Answer("llm-only", cached.chars))
              ELSE /\ enterGenerate(p, "llm")
                   /\ UNCHANGED <<outcome, calls>>

\* ExplainMCP.handle up to its first await: the cache lookup comes first
StartExplain(p) ==
    LET key == makeCacheKey(ExplainCommand, QueryOf(p), LevelOf(p))
        cached == getCachedValue(cache, key, now)
    IN  /\ pc[p] = "idle"
        /\ UNCHANGED <<storeVars, cacheAux, otherVars>>
        /\ req' = [req EXCEPT ![p] = [NoRequest EXCEPT !.cacheHit = Unexpired(cache, key, now)]]
        /\ cache' = getCachedMap(cache, key, now)
        /\ IF isHit(cached)
              THEN finish(p, Answer("explained", cached.chars))
              ELSE /\ enterGenerate(p, "explain")
                   /\ UNCHANGED <<outcome, calls>>

\* What ragPipeline's retrieval steps can yield (inputs): generateEmbedding
\* throws (embed FALSE), or queryDocuments returns `ids` rows of which
\* `relevant` pass the filter `similarity >= 0.3`.
Retrievals ==
    {[embed |-> FALSE, ids |-> 0, relevant |-> 0]}
        \cup {r \in [embed : {TRUE}, ids : 0..MaxRows, relevant : 0..MaxRows] :
                 r.relevant <= r.ids}

\* ragPipeline goes on to generate: no throw, `results.ids.length !== 0` and
\* `relevantChunks.length !== 0`
grounded(r) == r.embed /\ r.ids # 0 /\ r.relevant # 0

afterRetrieval_raise(r) ==
    IF grounded(r) THEN "rag" ELSE IF r.embed THEN "llm" ELSE "fail"

\* RAGMCP.handle: `if (ragResult) return ragResult`; a null result and a
\* caught error both fall through to llmOnlyAnswer
afterRetrieval(r) == IF grounded(r) THEN "rag" ELSE "llm"

\* RAGMCP.handle once ragPipeline's retrieval has finished with r: with usable
\* chunks the RAG pipeline generates; with none (null or a thrown error) the
\* LLM-only path runs
StartRequest(p, r) ==
    /\ pc[p] = "idle"
    /\ UNCHANGED <<storeVars, cacheAux, otherVars>>
    /\ req' = [req EXCEPT ![p] =
                  [cacheHit |-> Unexpired(cache, makeCacheKey(AskCommand, QueryOf(p), LevelOf(p)), now),
                   embedded |-> TRUE,
                   queried |-> r.embed,
                   grounded |-> grounded(r)]]
    /\ IF afterRetrieval(r) = "rag"
          THEN enterGenerate(p, "rag") /\ UNCHANGED <<cache, outcome, calls>>
          ELSE IF afterRetrieval(r) = "llm"
                  THEN llmOnlyAnswer(p)
                  ELSE finish(p, Answer("failed", <<>>)) /\ UNCHANGED cache

\* the caller's continuation once generateCompletion has settled
Settle(p) ==
    /\ pc[p] = "settled"
    /\ UNCHANGED <<storeVars, cacheAux, req, otherVars>>
    /\ IF phase[p] = "rag"
          THEN IF genResult[p].kind = "text"
                  THEN \* ragPipeline returns the grounded result
                       /\ finish(p, Answer("grounded", genResult[p].text))
                       /\ UNCHANGED cache
                  ELSE \* handle's catch: log, then the LLM-only fallback
                       llmOnlyAnswer(p)
          ELSE IF genResult[p].kind = "text"
                  THEN LET command == IF phase[p] = "llm" THEN AskCommand ELSE ExplainCommand IN
                       /\ cache' = setCache(cache, makeCacheKey(command, QueryOf(p), LevelOf(p)),
                                            genResult[p].text, DEFAULT_TTL_MS, now)
                       /\ finish(p, Answer(IF phase[p] = "llm" THEN "llm-only" ELSE "explained",
                                           genResult[p].text))
                  ELSE \* the LLMError leaves handle
                       /\ finish(p, Answer("failed", <<>>))
                       /\ UNCHANGED cache

\* time passes
Tick ==
    /\ UNCHANGED <<storeVars, cacheAux, req, otherVars>>
    /\ now + TickMs <= MaxTime
    /\ ~MicrotaskPending
    /\ now' = now + TickMs
    /\ UNCHANGED <<calls, running, waiting, providers, cache, pc, phase, cur, attempted,
                   genResult, outcome, skipped, rlAnswered, disabledAtCall, reqAttempts,
                   pendingRL, everTransient, ticket, arrivals, served>>

InitCore(S) ==
    /\ now = TickMs
    /\ running = 0
    /\ waiting = <<>>
    /\ providers = [k \in Slots |-> buildProvider]
    /\ cache = <<>>
    /\ pc = [p \in S |-> "idle"]
    /\ phase = [p \in S |-> "rag"]
    /\ cur = [p \in S |-> 0]
    /\ attempted = [p \in S |-> <<>>]
    /\ genResult = [p \in S |-> NoResult]
    /\ outcome = [p \in S |-> NoAnswer]
    /\ calls = [p \in S |-> 0]
    /\ skipped = [p \in S |-> {}]
    /\ rlAnswered = [p \in S |-> {}]
    /\ disabledAtCall = [p \in S |-> {}]
    /\ reqAttempts = [p \in S |-> [k \in Slots |-> 0]]
    /\ pendingRL = [k \in Slots |-> {}]
    /\ everTransient = {}
    /\ ticket = [p \in S |-> 0]
    /\ arrivals = 0
    /\ served = <<>>
    /\ collection = FALSE
    /\ isRagDisabled = FALSE
    /\ lastRetryAt = 0
    /\ op = [p \in S |-> "none"]
    /\ lastConnFailAt = 0
    /\ lastQueryFailAt = 0
    /\ nextSweep = CLEANUP_INTERVAL_MS
    /\ got = NoGet
    /\ nextKey = 1
    /\ recency = <<>>
    /\ live = [k \in HotKeys |-> NotWritten]
    /\ req = [p \in S |-> NoRequest]
    /\ limits = [u \in Users |-> NoEntry]
    /\ checked = NoCheck
    /\ window = [u \in Users |-> NoWindow]
    /\ parsed = NotParsed
    /\ scored = NotScored
    /\ task = [p \in S |-> NoTask]
    /\ jobs = <<>>
    /\ lastConfidence = 0

\* ... with no model output at hand
InitOver(S) == InitCore(S) /\ rawResponse = <<>> /\ results = <<>>

\* ------------------------------------ callers of generateCompletion itself
\* a caller invokes the exported generateCompletion ...
Call(p) ==
    /\ UNCHANGED <<storeVars, cacheAux, req, otherVars>>
    /\ pc[p] = "idle"
    /\ calls[p] < MaxCalls
    /\ calls' = [calls EXCEPT ![p] = @ + 1]
    /\ enterGenerate(p, "rag")
    /\ UNCHANGED <<cache, outcome>>

\* ... and takes its result (text or LLMError); the locals of the call are gone
Return(p) ==
    /\ UNCHANGED <<storeVars, cacheAux, req, otherVars>>
    /\ pc[p] = "settled"
    /\ pc' = [pc EXCEPT ![p] = "idle"]
    /\ attempted' = [attempted EXCEPT ![p] = <<>>]
    /\ genResult' = [genResult EXCEPT ![p] = NoResult]
    /\ skipped' = [skipped EXCEPT ![p] = {}]
    /\ rlAnswered' = [rlAnswered EXCEPT ![p] = {}]
    /\ disabledAtCall' = [disabledAtCall EXCEPT ![p] = {}]
    /\ reqAttempts' = [reqAttempts EXCEPT ![p] = [k \in Slots |-> 0]]
    /\ UNCHANGED <<now, running, waiting, providers, cache, phase, cur, outcome, calls,
                   pendingRL, everTransient, ticket, arrivals, served>>

Init == InitOver(Callers)

Next ==
    \/ \E p \in Callers : Call(p)
    \/ \E p \in Callers : Resume(p)
    \/ \E p \in Callers, c \in Contents : Respond(p, c)
    \/ \E p \in Callers, e \in ApiErrors : Reject(p, e)
    \/ \E p \in Callers : Return(p)
    \/ Tick

Spec == Init /\ [][Next]_vars

\* ------------------------------------------- a flood of generateCompletion
\* more concurrent calls than the gate has slots, all in one burst (no time
\* passes)
FloodInit == InitOver(FloodCallers)

FloodNext ==
    \/ \E p \in FloodCallers : Call(p)
    \/ \E p \in FloodCallers : Resume(p)
    \/ \E p \in FloodCallers, c \in Contents : Respond(p, c)
    \/ \E p \in FloodCallers, e \in ApiErrors : Reject(p, e)
    \/ \E p \in FloodCallers : Return(p)

FloodSpec == FloodInit /\ [][FloodNext]_vars

\* ------------------------------------------------ ask requests (RAGMCP.handle)
AskInit == InitOver(Askers)

AskNext ==
    \/ \E p \in Askers, r \in Retrievals : StartRequest(p, r)
    \/ \E p \in Askers : StartExplain(p)
    \/ \E p \in Askers : Resume(p)
    \/ \E p \in Askers, c \in Contents : Respond(p, c)
    \/ \E p \in Askers, e \in ApiErrors : Reject(p, e)
    \/ \E p \in Askers : Settle(p)
    \/ Tick

AskSpec == AskInit /\ [][AskNext]_vars

\* --------------------------------------------- the gate alone (queue.ts API)
\* callers that use the exported acquire()/release() directly, as the unit
\* tests of the queue do
GateAcquire(p) ==
    /\ UNCHANGED <<storeVars, cacheAux, req, otherVars>>
    /\ pc[p] = "idle"
    /\ acquire(p)
    /\ arrivals' = arrivals + 1
    /\ ticket' = [ticket EXCEPT ![p] = arrivals + 1]
    /\ UNCHANGED <<calls, now, providers, cache, phase, cur, attempted, genResult, outcome,
                   skipped, rlAnswered, disabledAtCall, reqAttempts, pendingRL, everTransient, served>>

GateRelease(p) ==
    /\ UNCHANGED <<storeVars, cacheAux, req, otherVars>>
    /\ pc[p] = "acquired"
    /\ release(p, "done")
    /\ served' = IF \E q \in GateCallers : pc[q] = "waiting" /\ pc'[q] = "acquired"
                    THEN Append(served, CHOOSE q \in GateCallers :
                                           pc[q] = "waiting" /\ pc'[q] = "acquired")
                    ELSE served
    /\ UNCHANGED <<calls, now, providers, cache, phase, cur, attempted, genResult, outcome,
                   skipped, rlAnswered, disabledAtCall, reqAttempts, pendingRL, everTransient, ticket, arrivals>>

GateInit == InitOver(GateCallers)

GateNext ==
    \/ \E p \in GateCallers : GateAcquire(p)
    \/ \E p \in GateCallers : GateRelease(p)

GateSpec == GateInit /\ [][GateNext]_vars

\* ------------------------------------ db/chroma.ts: the vector store client
chainVars == <<running, waiting, providers, cache, phase, cur, attempted, genResult,
               skipped, rlAnswered, disabledAtCall, reqAttempts, pendingRL,
               everTransient, ticket, arrivals, served>>

\* queryDocuments' results: the ids returned (`{ ids: [], ... }` when empty)
QueryResult(ids) == Answer("result", ids)
EmptyResult == QueryResult(<<>>)
\* IngestionMCP.handle's result: `{ chunksCreated, documentsIndexed, errors }`
IngestResult(errors) == Answer("ingested", errors)
\* an error that leaves the function
Thrown == Answer("raised", <<>>)

queryFailed_rethrow == Thrown

\* queryDocuments' catch block returns the empty result
queryFailed == EmptyResult

addFailed_rethrow(errors) == Thrown

\* IngestionMCP.handle's catch around addDocuments: record the error, go on to
\* `return { ..., errors }`
addFailed(errors) == IngestResult(Append(errors, "ChromaDB storage failed"))

\* getChromaCollection: `if (now - lastRetryAt < RETRY_INTERVAL_MS) return null`
suppressed(disabled, last, t) == disabled /\ t - last < RETRY_INTERVAL_MS

\* The caller of getChromaCollection continues with the collection it got
\* (col FALSE: null): queryDocuments returns the empty result or starts
\* col.query; addDocuments returns at once (and handle returns its result) or
\* starts col.add.
continueWith(p, kind, col) ==
    IF kind = "query"
       THEN IF col
               THEN pc' = [pc EXCEPT ![p] = "querying"] /\ outcome' = outcome
               ELSE pc' = [pc EXCEPT ![p] = "idle"]
                    /\ outcome' = [outcome EXCEPT ![p] = EmptyResult]
       ELSE IF col
               THEN pc' = [pc EXCEPT ![p] = "adding"] /\ outcome' = outcome
               ELSE pc' = [pc EXCEPT ![p] = "idle"]
                    /\ outcome' = [outcome EXCEPT ![p] = IngestResult(<<>>)]

\* getChromaCollection up to its first await (or its return), called by p for
\* an operation of this kind
getChromaCollection(p, kind) ==
    LET skip == suppressed(isRagDisabled, lastRetryAt, now)
        retry == isRagDisabled /\ ~skip
    IN  /\ lastRetryAt' = IF retry THEN now ELSE lastRetryAt
        /\ isRagDisabled' = IF retry THEN FALSE ELSE isRagDisabled
        /\ collection' = collection
        /\ IF skip THEN continueWith(p, kind, FALSE)
           ELSE IF ~collection
                   THEN pc' = [pc EXCEPT ![p] = "connecting"] /\ outcome' = outcome
                   ELSE continueWith(p, kind, collection)
        \* history
        /\ lastConnFailAt' = IF lastConnFailAt > 0 /\ now >= lastConnFailAt + RETRY_INTERVAL_MS
                                THEN 0 ELSE lastConnFailAt
        /\ lastQueryFailAt' = IF lastQueryFailAt > 0 /\ now >= lastQueryFailAt + RETRY_INTERVAL_MS
                                 THEN 0 ELSE lastQueryFailAt

\* the catch block of getChromaCollection, then `return null` to the caller
connectFailed(p) ==
    /\ isRagDisabled' = TRUE
    /\ lastRetryAt' = now
    /\ lastConnFailAt' = now
    /\ continueWith(p, op[p], FALSE)

\* a caller calls queryDocuments
StoreQuery(p) ==
    /\ pc[p] = "idle"
    /\ calls[p] < MaxStoreCalls
    /\ calls' = [calls EXCEPT ![p] = @ + 1]
    /\ op' = [op EXCEPT ![p] = "query"]
    /\ getChromaCollection(p, "query")
    /\ UNCHANGED <<now, chainVars, cacheAux, req, otherVars>>

\* IngestionMCP.handle once the embeddings are in (embedded) or their batch has
\* failed: with no chunk embedded it returns the recorded error without calling
\* addDocuments
StoreIngest(p, embedded) ==
    /\ pc[p] = "idle"
    /\ calls[p] < MaxStoreCalls
    /\ calls' = [calls EXCEPT ![p] = @ + 1]
    /\ op' = [op EXCEPT ![p] = "ingest"]
    /\ IF embedded
          THEN getChromaCollection(p, "ingest")
          ELSE /\ outcome' = [outcome EXCEPT ![p] = IngestResult(<<"Embedding batch failed">>)]
               /\ UNCHANGED <<pc, collection, isRagDisabled, lastRetryAt,
                              lastConnFailAt, lastQueryFailAt>>
    /\ UNCHANGED <<now, chainVars, cacheAux, req, otherVars>>

\* `await client.listCollections()` and `await client.getOrCreateCollection()`
\* have settled
ConnectDone(p, ok) ==
    /\ pc[p] = "connecting"
    /\ IF ok
          THEN /\ collection' = TRUE
               /\ pc' = [pc EXCEPT ![p] = "counting"]
               /\ UNCHANGED <<outcome, isRagDisabled, lastRetryAt, lastConnFailAt>>
          ELSE connectFailed(p) /\ UNCHANGED collection
    /\ UNCHANGED <<now, calls, op, lastQueryFailAt, chainVars, cacheAux, req, otherVars>>

\* `await collection.count()` has settled; on success `return collection`
\* reads the module variable as it is by then
CountDone(p, ok) ==
    /\ pc[p] = "counting"
    /\ IF ok
          THEN /\ continueWith(p, op[p], collection)
               /\ UNCHANGED <<isRagDisabled, lastRetryAt, lastConnFailAt>>
          ELSE connectFailed(p)
    /\ UNCHANGED <<now, calls, op, collection, lastQueryFailAt, chainVars, cacheAux, req, otherVars>>

\* `await col.query(...)` has settled: with rows, with none, or rejected
QueryDone(p, r) ==
    /\ pc[p] = "querying"
    /\ pc' = [pc EXCEPT ![p] = "idle"]
    /\ IF r = "fail"
          THEN /\ collection' = FALSE
               /\ lastQueryFailAt' = now
               /\ outcome' = [outcome EXCEPT ![p] = queryFailed]
          ELSE /\ outcome' = [outcome EXCEPT ![p] =
                                 QueryResult(IF r = "rows" THEN <<"id">> ELSE <<>>)]
               /\ UNCHANGED <<collection, lastQueryFailAt>>
    /\ UNCHANGED <<now, calls, op, isRagDisabled, lastRetryAt, lastConnFailAt,
                   chainVars, cacheAux, req, otherVars>>

\* `await col.add(...)` has settled; a rejection leaves addDocuments and is
\* caught in IngestionMCP.handle
AddDone(p, ok) ==
    /\ pc[p] = "adding"
    /\ pc' = [pc EXCEPT ![p] = "idle"]
    /\ outcome' = [outcome EXCEPT ![p] = IF ok THEN IngestResult(<<>>) ELSE addFailed(<<>>)]
    /\ UNCHANGED <<now, calls, storeVars, chainVars, cacheAux, req, otherVars>>

\* time passes
StoreTick ==
    /\ now + StoreTickMs <= MaxStoreTime
    /\ now' = now + StoreTickMs
    /\ UNCHANGED <<pc, outcome, calls, storeVars, chainVars, cacheAux, req, otherVars>>

StoreInit == InitOver(StoreCallers)

StoreNext ==
    \/ \E p \in StoreCallers : StoreQuery(p)
    \/ \E p \in StoreCallers, embedded \in BOOLEAN : StoreIngest(p, embedded)
    \/ \E p \in StoreCallers, ok \in BOOLEAN : ConnectDone(p, ok)
    \/ \E p \in StoreCallers, ok \in BOOLEAN : CountDone(p, ok)
    \/ \E p \in StoreCallers, r \in {"rows", "norows", "fail"} : QueryDone(p, r)
    \/ \E p \in StoreCallers, ok \in BOOLEAN : AddDone(p, ok)
    \/ StoreTick

StoreSpec == StoreInit /\ [][StoreNext]_vars

\* ------------------------------- direct callers of getCached / setCache
Min(a, b) == IF a < b THEN a ELSE b

\* history: the keys still present, least recently accessed first, after the
\* keys in `touched` (in order) were written or returned
Touch(rec, touched, c) ==
    LET present == Keys(c)
        again == {touched[i] : i \in 1..Len(touched)}
    IN  SelectSeq(rec, LAMBDA k : k \notin again /\ k \in present)
            \o SelectSeq(touched, LAMBDA k : k \in present)

\* history: a hot key that a write pushed out of the Map is no longer live
Surviving(lv, c, c2) ==
    [h \in HotKeys |-> IF h \in Keys(c) /\ h \notin Keys(c2) THEN NotWritten ELSE lv[h]]

\* every write is early enough for its entry to expire one cleanup interval
\* before the end of the modelled time
WriteAllowed(ttlMs) == now + ttlMs + CLEANUP_INTERVAL_MS <= MaxCacheTime

\* setCache(k, v, ttlMs) by a direct caller
CacheSet(k, v, ttlMs) ==
    /\ WriteAllowed(ttlMs)
    /\ cache' = setCache(cache, k, v, ttlMs, now)
    /\ recency' = Touch(recency, <<k>>, cache')
    /\ live' = [Surviving(live, cache, cache') EXCEPT
                   ![k] = [written |-> TRUE, value |-> v, at |-> now, ttl |-> ttlMs]]
    /\ UNCHANGED <<now, running, waiting, providers, pc, phase, cur, attempted, genResult,
                   outcome, calls, skipped, rlAnswered, disabledAtCall, reqAttempts,
                   pendingRL, everTransient, ticket, arrivals, served, storeVars,
                   nextSweep, got, nextKey, req, otherVars>>

\* n setCache calls in a row, each on a key never used before
CacheFill(n, ttlMs) ==
    /\ WriteAllowed(ttlMs)
    /\ nextKey + n - 1 <= MaxFresh
    /\ cache' = fillCache(cache, nextKey, n, ttlMs, now)
    /\ nextKey' = nextKey + n
    /\ recency' = Touch(recency, [i \in 1..n |-> KeyOf(nextKey + i - 1)], cache')
    /\ live' = Surviving(live, cache, cache')
    /\ UNCHANGED <<now, running, waiting, providers, pc, phase, cur, attempted, genResult,
                   outcome, calls, skipped, rlAnswered, disabledAtCall, reqAttempts,
                   pendingRL, everTransient, ticket, arrivals, served, storeVars,
                   nextSweep, got, req, otherVars>>

\* getCached(k) by a direct caller
CacheGet(k) ==
    /\ got' = [called |-> TRUE, key |-> k, value |-> getCachedValue(cache, k, now)]
    /\ cache' = getCachedMap(cache, k, now)
    /\ recency' = Touch(recency, IF k \in Keys(cache') THEN <<k>> ELSE <<>>, cache')
    /\ UNCHANGED <<now, running, waiting, providers, pc, phase, cur, attempted, genResult,
                   outcome, calls, skipped, rlAnswered, disabledAtCall, reqAttempts,
                   pendingRL, everTransient, ticket, arrivals, served, storeVars,
                   nextSweep, nextKey, live, req, otherVars>>

\* time passes, at most until the cleanup timer is due
CacheTick ==
    /\ now < nextSweep
    /\ Min(now + CacheTickMs, nextSweep) <= MaxCacheTime
    /\ now' = Min(now + CacheTickMs, nextSweep)
    /\ UNCHANGED <<running, waiting, providers, cache, pc, phase, cur, attempted, genResult,
                   outcome, calls, skipped, rlAnswered, disabledAtCall, reqAttempts,
                   pendingRL, everTransient, ticket, arrivals, served, storeVars,
                   cacheAux, req, otherVars>>

\* the setInterval callback of cleanupTimer
Sweep ==
    /\ now >= nextSweep
    /\ cache' = sweep(cache, now)
    /\ nextSweep' = nextSweep + CLEANUP_INTERVAL_MS
    /\ recency' = Touch(recency, <<>>, cache')
    /\ UNCHANGED <<now, running, waiting, providers, pc, phase, cur, attempted, genResult,
                   outcome, calls, skipped, rlAnswered, disabledAtCall, reqAttempts,
                   pendingRL, everTransient, ticket, arrivals, served, storeVars,
                   got, nextKey, live, req, otherVars>>

CacheInit == InitOver({})

\* reads and writes of a few keys as time passes and the timer fires
CacheNext ==
    \/ \E k \in HotKeys, v \in Values, ttlMs \in Ttls : CacheSet(k, v, ttlMs)
    \/ \E k \in HotKeys : CacheGet(k)
    \/ CacheTick
    \/ Sweep

CacheSpec == CacheInit /\ [][CacheNext]_vars

\* a burst of reads and writes that fills the cache (no time passes)
LruNext ==
    \/ \E k \in HotKeys : CacheSet(k, <<"v">>, CacheTickMs)
    \/ CacheFill(FillSize, CacheTickMs)
    \/ \E k \in HotKeys : CacheGet(k)

LruSpec == CacheInit /\ [][LruNext]_vars

\* the process keeps running: time passes and the timer fires
CacheLiveSpec == CacheSpec /\ WF_vars(CacheTick) /\ WF_vars(Sweep)

\* --------------------------------------------------- utils/rateLimit.ts
check_atLimit(entry, t) ==
    IF ~entry.present \/ t > entry.resetAt
       THEN [entry |-> [present |-> TRUE, count |-> 1, resetAt |-> t + windowMs],
             blocked |-> FALSE]
       ELSE [entry |-> [entry EXCEPT !.count = entry.count + 1],
             blocked |-> entry.count + 1 >= perUser]

\* RateLimiter.check on the user's entry at time t: the entry it leaves in the
\* Map and the value it returns (true: blocked)
check(entry, t) ==
    IF ~entry.present \/ t > entry.resetAt
       THEN [entry |-> [present |-> TRUE, count |-> 1, resetAt |-> t + windowMs],
             blocked |-> FALSE]
       ELSE [entry |-> [entry EXCEPT !.count = entry.count + 1],
             blocked |-> entry.count + 1 > perUser]

\* history: a user's window opens with the first call made when none is open
\* and covers the calls made up to windowMs later (that instant included, as
\* in the code's `now > entry.resetAt`)
InWindow(w, t) == w.open /\ t <= w.start + windowMs
countCall(w, t) ==
    IF InWindow(w, t) THEN [w EXCEPT !.calls = w.calls + 1]
    ELSE [open |-> TRUE, start |-> t, calls |-> 1]

\* a command handler calls rateLimiter.check(u)
Check(u) ==
    /\ limits[u].present /\ ~(now > limits[u].resetAt) => limits[u].count < perUser + MaxOver
    /\ limits' = [limits EXCEPT ![u] = check(limits[u], now).entry]
    /\ checked' = [user |-> u, blocked |-> check(limits[u], now).blocked]
    /\ window' = [window EXCEPT ![u] = countCall(window[u], now)]
    /\ UNCHANGED <<now, pc, outcome, calls, storeVars, chainVars, cacheAux, req, parseVars, scoreVars, orchVars>>

\* time passes
RateTick ==
    /\ now + RateTickMs <= MaxRateTime
    /\ now' = now + RateTickMs
    /\ UNCHANGED <<pc, outcome, calls, storeVars, chainVars, cacheAux, req, otherVars>>

RateInit == InitOver({})

RateNext ==
    \/ \E u \in Users : Check(u)
    \/ RateTick

RateSpec == RateInit /\ [][RateNext]_vars

\* --------------------------------------------------- RAGMCP.parseJSON
\* A model output is a sequence of pieces: a code fence marker (three
\* backticks) written "fence", a line
\* break, a run of prose "w", the braces, the member `"answer": "x"` written
\* "A", and the literal null.
RawTokens == {"fence", "\n", "w", "{", "}", "A", "null"}

RECURSIVE SeqsUpTo(_, _)
SeqsUpTo(S, n) ==
    IF n = 0 THEN {<<>>}
    ELSE LET shorter == SeqsUpTo(S, n - 1)
         IN  shorter \cup {Append(x, t) : x \in {y \in shorter : Len(y) = n - 1}, t \in S}
Raws == SeqsUpTo(RawTokens, MaxRawLen)

\* position of the first / last piece of s that is (in) T, 0 when there is none
FirstIn(s, T) ==
    IF \E i \in 1..Len(s) : s[i] \in T
       THEN CHOOSE i \in 1..Len(s) : s[i] \in T /\ \A j \in 1..(i - 1) : s[j] \notin T
       ELSE 0
LastIn(s, T) ==
    IF \E i \in 1..Len(s) : s[i] \in T
       THEN CHOOSE i \in 1..Len(s) : s[i] \in T /\ \A j \in (i + 1)..Len(s) : s[j] \notin T
       ELSE 0

\* the outer-fence pattern on a trimmed text: a fence marker and a line break
\* at the start, a line break and a fence marker at the end
outerFence(s) ==
    /\ Len(s) >= 4
    /\ s[1] = "fence" /\ s[2] = "\n"
    /\ s[Len(s) - 1] = "\n" /\ s[Len(s)] = "fence"

\* the two replace calls: a fence marker at the start goes with the white
\* space after it, one at the end with the white space before it
stripLeadingFence(s) ==
    IF Len(s) > 0 /\ s[1] = "fence" THEN trimStart(Tail(s)) ELSE s
stripTrailingFence(s) ==
    LET t == trimEnd(s) IN
    IF Len(t) > 0 /\ t[Len(t)] = "fence" THEN trimEnd(SubSeq(t, 1, Len(t) - 1)) ELSE s

\* the first lines of parseJSON: the text the strategies work on
cleanRaw(r) ==
    LET cleaned == trim(r) IN
    IF outerFence(cleaned)
       THEN trim(SubSeq(cleaned, 3, Len(cleaned) - 2))
       ELSE trim(stripTrailingFence(stripLeadingFence(cleaned)))

\* JSON.parse: "error" for a SyntaxError, else the kind of value ("null", an
\* object without an answer, an object with one); white space between the
\* pieces is allowed
JSONparse(s) ==
    LET y == SelectSeq(s, LAMBDA t : t # "\n") IN
    IF y = <<"null">> THEN "null"
    ELSE IF y = <<"{", "}">> THEN "empty"
    ELSE IF y = <<"{", "A", "}">> THEN "answer"
    ELSE "error"

\* sanitizeAnswer: three or more line breaks in a row become two
RECURSIVE collapseBlankLines(_)
collapseBlankLines(s) ==
    IF Len(s) < 3 THEN s
    ELSE IF s[1] = "\n" /\ s[2] = "\n" /\ s[3] = "\n" THEN collapseBlankLines(Tail(s))
    ELSE <<s[1]>> \o collapseBlankLines(Tail(s))

\* the piece after position i, white space skipped ("" at the end of the text)
NextPiece(s, i) ==
    LET rest == trimStart(SubSeq(s, i + 1, Len(s))) IN
    IF Len(rest) > 0 THEN rest[1] ELSE ""

\* sanitizeAnswer on a text: of a text that starts with a brace and the answer
\* member, the wrapper pattern keeps what lies between the first quote of the
\* answer and the last quote that a brace follows; the escapes need a
\* backslash; then the line breaks are collapsed and the text is trimmed
sanitizeAnswer(s) ==
    LET closers == {i \in 1..Len(s) : s[i] = "A" /\ NextPiece(s, i) = "}"}
        wrapped == /\ NextPiece(s, 0) = "{"
                   /\ NextPiece(s, FirstIn(s, {"{"})) = "A"
                   /\ closers # {}
        i == FirstIn(s, {"A"})
        j == CHOOSE k \in closers : \A m \in closers : m <= k
        inner == IF j = i THEN <<"x">> ELSE <<"x">> \o SubSeq(s, i + 1, j - 1) \o <<"A">>
    IN  trim(collapseBlankLines(IF wrapped THEN inner ELSE s))

\* how a strategy ends: it returns a value, falls through to the next one,
\* or throws
Returns(k, has, ans, lists) ==
    [end |-> "returned", by |-> k, hasAnswer |-> has, answer |-> ans, lists |-> lists]
Falls == [end |-> "fell", by |-> 0, hasAnswer |-> FALSE, answer |-> <<>>, lists |-> "none"]
Throws == [end |-> "threw", by |-> 0, hasAnswer |-> FALSE, answer |-> <<>>, lists |-> "none"]

\* the value JSON.parse gave, returned as it is with its answer sanitized
parsedObject(k, v) ==
    IF v = "answer" THEN Returns(k, TRUE, sanitizeAnswer(<<"x">>), "parsed") ELSE Returns(k, FALSE, <<>>, "parsed")

\* Attempt 1, the body of the try: JSON.parse throws on bad JSON, and
\* `parsed.answer` throws on null
direct(cleaned) ==
    LET v == JSONparse(cleaned) IN
    IF v \in {"error", "null"} THEN Throws ELSE parsedObject(1, v)

\* Attempt 2: the pattern takes the first "{" up to the last "}"
extractObject(cleaned) ==
    LET i == FirstIn(cleaned, {"{"})
        j == LastIn(cleaned, {"}"})
    IN  IF i > 0 /\ j > i
           THEN LET v == JSONparse(SubSeq(cleaned, i, j)) IN
                IF v = "error" THEN Throws
                ELSE IF v = "answer" THEN parsedObject(2, v) ELSE Falls
           ELSE Falls

\* Attempt 3: from the first line that starts with "{" to the end
LineStart(s, i) == i = 1 \/ s[i - 1] = "\n"
afterNewline(cleaned) ==
    LET starts == {i \in 1..Len(cleaned) : cleaned[i] = "{" /\ LineStart(cleaned, i)} IN
    IF starts = {} THEN Falls
    ELSE LET i == CHOOSE k \in starts : \A m \in starts : k <= m
             v == JSONparse(SubSeq(cleaned, i, Len(cleaned)))
         IN  IF v = "error" THEN Throws
             ELSE IF v = "answer" THEN parsedObject(3, v) ELSE Falls

\* Attempt 4: the pattern finds an answer member that a brace follows; the
\* lists are empty when their patterns find nothing
answerField(cleaned) ==
    IF \E i \in 1..Len(cleaned) :
          cleaned[i] = "A" /\ NextPiece(cleaned, i) = "}"
       THEN Returns(4, TRUE, sanitizeAnswer(<<"x">>), "empty")
       ELSE Falls

\* the fallback: the whole cleaned text, sanitized
rawAnswer(cleaned) == Returns(5, TRUE, sanitizeAnswer(cleaned), "empty")

caught_rethrow(r) == r

\* try ... catch with an empty handler: a throw becomes a fall-through
caught(r) == IF r.end = "threw" THEN Falls ELSE r

\* parseJSON
parseJSON(r) ==
    LET cleaned == cleanRaw(r)
        a1 == caught(direct(cleaned))
        a2 == caught(extractObject(cleaned))
        a3 == caught(afterNewline(cleaned))
        a4 == caught(answerField(cleaned))
    IN  IF a1.end # "fell" THEN a1
        ELSE IF a2.end # "fell" THEN a2
        ELSE IF a3.end # "fell" THEN a3
        ELSE IF a4.end # "fell" THEN a4
        ELSE rawAnswer(cleaned)

\* const parsed = this.parseJSON(rawResponse)
ParseJSON ==
    /\ parsed.end = "none"
    /\ parsed' = parseJSON(rawResponse)
    /\ UNCHANGED <<now, pc, outcome, calls, storeVars, chainVars, cacheAux, req, limiterVars,
                   rawResponse, scoreVars, orchVars>>

ParseInit == InitCore({}) /\ rawResponse \in Raws /\ results = <<>>

ParseNext == ParseJSON

ParseSpec == ParseInit /\ [][ParseNext]_vars

\* the provider call in flight for p settles
ProviderSettles(p) ==
    \/ \E c \in Contents : Respond(p, c)
    \/ \E e \in ApiErrors : Reject(p, e)

\* a flood in which each caller makes MaxDrainCalls calls
DrainNext ==
    \/ \E p \in FloodCallers : calls[p] < MaxDrainCalls /\ Call(p)
    \/ \E p \in FloodCallers : Resume(p)
    \/ \E p \in FloodCallers, c \in Contents : Respond(p, c)
    \/ \E p \in FloodCallers, e \in ApiErrors : Reject(p, e)
    \/ \E p \in FloodCallers : Return(p)

DrainSpec == FloodInit /\ [][DrainNext]_vars

\* every provider call terminates, and the event loop runs every continuation
\* that is ready (after acquire resolves, after generateCompletion settles)
DrainLiveSpec ==
    /\ DrainSpec
    /\ \A p \in FloodCallers :
          WF_vars(ProviderSettles(p)) /\ WF_vars(Resume(p)) /\ WF_vars(Return(p))

\* ------------------------------------- RAGMCP.ragPipeline: scoring (steps 3-7)
\* Numbers are exact decimals: Pct(n) is n hundredths, in units fine enough
\* for the average of up to rerankTop of them (binary floating-point rounding
\* is not modelled).
Pct(n) == n * 60

\* the distances the vector store reports, in hundredths (inputs), and the
\* rows it returns
Distances == {5, 70, 72}
Rows == [distance : Distances, terms : 0..MaxTerms]
ResultSets == SeqsUpTo(Rows, MaxChunks)

\* steps 3 and 3b: similarity = 1 - distance, plus 0.05 for every query term
\* the content holds
similarityOf(row) == Pct(100) - Pct(row.distance) + row.terms * Pct(5)
scoredChunks(rs) == [i \in 1..Len(rs) |-> similarityOf(rs[i])]

\* Array.prototype.sort((a, b) => b - a): descending
RECURSIVE insertDesc(_, _)
insertDesc(s, x) ==
    IF Len(s) = 0 THEN <<x>>
    ELSE IF x > s[1] THEN <<x>> \o s
    ELSE <<s[1]>> \o insertDesc(Tail(s), x)
RECURSIVE sortDesc(_)
sortDesc(s) == IF Len(s) = 0 THEN <<>> ELSE insertDesc(sortDesc(Tail(s)), s[1])

\* .slice(0, n)
slice(s, n) == SubSeq(s, 1, Min(n, Len(s)))

relevantChunks_unfiltered(rs) == slice(sortDesc(scoredChunks(rs)), rerankTop)

\* the chunks kept: similarity >= 0.3, best first, at most rerankTop
relevantChunks(rs) ==
    slice(sortDesc(SelectSeq(scoredChunks(rs), LAMBDA c : c >= Pct(30))), rerankTop)

RECURSIVE sum(_)
sum(s) == IF Len(s) = 0 THEN 0 ELSE s[1] + sum(Tail(s))

lastConfidenceOf_unclamped(chunks) == (sum(chunks) \div Len(chunks)) + Pct(10)

\* Math.min(avgSimilarity + 0.1, 1.0)
lastConfidenceOf(chunks) == Min((sum(chunks) \div Len(chunks)) + Pct(10), Pct(100))

\* the confidence llmOnlyAnswer sets
LLM_ONLY == Pct(50)

\* what the request answers from these rows when its generation succeeds: the
\* grounded result, or with no chunk kept (null from ragPipeline) the
\* LLM-only result
Score ==
    /\ ~scored.done
    /\ scored' = IF Len(results) = 0 \/ Len(relevantChunks(results)) = 0
                    THEN [done |-> TRUE, citations |-> <<>>, confidence |-> LLM_ONLY]
                    ELSE [done |-> TRUE, citations |-> relevantChunks(results),
                          confidence |-> lastConfidenceOf(relevantChunks(results))]
    /\ UNCHANGED <<now, pc, outcome, calls, storeVars, chainVars, cacheAux, req, limiterVars,
                   parseVars, results, orchVars>>

ScoreInit == InitCore({}) /\ rawResponse = <<>> /\ results \in ResultSets

ScoreNext == Score

ScoreSpec == ScoreInit /\ [][ScoreNext]_vars

\* ------------------------- MCPOrchestrator over RAGMCP, ExplainMCP and the gate
\* Request p is made by user p. Continuations run as microtasks, first in
\* first out; a provider's answer and the arrival of a request are callbacks of
\* the event loop, which run only when no microtask is left.
Requests == 1..NumRequests
\* the commands (inputs): every user asks, the last one may also ask for
\* related topics or an explanation
Kinds == {"ask", "related", "explain"}
KindsOf(p) == IF p = NumRequests THEN Kinds ELSE {"ask"}
\* the memory lookup may fail for the last user
MemoryThrows(p) == IF p = NumRequests THEN BOOLEAN ELSE {FALSE}
\* the provider's failures (inputs): one that starts a cooldown, one that
\* does not
OrchErrors == {e \in ApiErrors : e.status = 429 \/ e.message = "Request timeout"}
RelatedCommand == <<"r", "e", "l", "a", "t", "e", "d">>

\* the confidences the code assigns
RELATED == Pct(70)
FALLBACK == Pct(30)
EXPLAIN_FRESH == Pct(75)
EXPLAIN_CACHED == Pct(90)
DEFAULT_CONFIDENCE == Pct(100)

\* the rows retrieval hands an ask request (inputs): none, one below the
\* threshold, one at it, and one whose boosted similarity reaches 1.0
OrchResults ==
    { <<>>,
      <<[distance |-> 72, terms |-> 0]>>,
      <<[distance |-> 70, terms |-> 0]>>,
      <<[distance |-> 5, terms |-> 1]>> }

\* what a handle() call came to: it threw, or returned d
Threw == [threw |-> TRUE, data |-> NoData]
Handled(d) == [threw |-> FALSE, data |-> d]

execute_rethrow(h, conf) ==
    [done |-> TRUE, rejected |-> h.threw, success |-> ~h.threw, data |-> h.data,
     confidence |-> conf]

\* BaseMCP.execute: handle's result wrapped with its confidence; a throw is
\* caught and becomes success false, data null, confidence 0
execute(h, conf) ==
    IF h.threw
       THEN [done |-> TRUE, rejected |-> FALSE, success |-> FALSE, data |-> NoData,
             confidence |-> 0]
       ELSE [done |-> TRUE, rejected |-> FALSE, success |-> TRUE, data |-> h.data,
             confidence |-> conf]

getConfidence_base(kind, data, last) == DEFAULT_CONFIDENCE

\* getConfidence(data): RAGMCP answers with its field lastConfidence,
\* ExplainMCP with data.confidence
getConfidence(kind, data, last) == IF kind = "explain" THEN data.confidence ELSE last

\* formatHistory(history) in the prompt: the user's own interactions, or none
\* when the memory lookup failed; the related-topics prompt holds no history
UserTag(p) == Digits[p + 1]
PromptHistory(p) == IF phase[p] = "related" THEN "-" ELSE task[p].history

\* The provider's completions (inputs): a text that depends on the prompt (it
\* repeats the history the prompt holds) or no content, and for an explanation
\* also the JSON text `null`.
Completions(p) ==
    {Str(<<PromptHistory(p)>>), NoContent}
        \cup (IF phase[p] = "explain" THEN {Str(<<"null">>)} ELSE {})

\* the constant texts of the orchestrator's fallback results
Sorry == <<"s", "o", "r", "r", "y">>

Job(p, hops) == [p |-> p, hops |-> hops]

\* A resumed waiter continues one microtask later than a caller whose own
\* promise resolved: acquire() is an async function that returned a promise,
\* so the waiter's `await` sees the resolution through one more reaction.
WaiterHops == 1
\* From the continuation of ragPipeline, llmOnlyAnswer or findRelated to the
\* continuation of execute: one reaction of handle in between.
ReturnHops == 1
\* A cache hit finishes llmOnlyAnswer / findRelated before handle returns their
\* promise: adopting that settled promise takes two more microtasks
AdoptHops == 2

\* release() wakes the first waiter: its continuation is queued at once
handOff(js) ==
    IF Len(waiting) > 0
       THEN Append(js, Job(waiting[nextWaiter(waiting)], WaiterHops))
       ELSE js

orchFrame ==
    UNCHANGED <<now, attempted, outcome, calls, skipped, rlAnswered, disabledAtCall,
                reqAttempts, pendingRL, everTransient, ticket, arrivals, served,
                storeVars, cacheAux, req, limiterVars, parseVars, scoreVars>>

\* generateCompletion up to `await llmQueue.acquire()`, the request's state
\* being t: a granted acquire continues in the next microtask
orchEnter(p, ph, t, js) ==
    /\ phase' = [phase EXCEPT ![p] = ph]
    /\ task' = [task EXCEPT ![p] = t]
    /\ acquire(p)
    /\ jobs' = IF acquireGrants(running) THEN Append(js, Job(p, 0)) ELSE js
    /\ UNCHANGED <<providers, cur, genResult>>

\* handle() has settled with the request's state t; execute continues `hops`
\* microtasks after the next one
toExecute(p, t, hops, js) ==
    /\ task' = [task EXCEPT ![p] = t]
    /\ pc' = [pc EXCEPT ![p] = "handled"]
    /\ jobs' = Append(js, Job(p, hops))
    /\ UNCHANGED <<running, waiting, providers, phase, cur, genResult>>

\* the provider loop of generateCompletion from index `from` on: the next
\* attempt goes out, or the loop runs out, the slot is released in `finally`
\* and the caller's continuation is queued behind the woken waiter's
orchLoop(p, from, prov, js) ==
    LET i == nextAttempt(prov, from, now) IN
    IF i > LoopLast
       THEN /\ providers' = prov
            /\ genResult' = [genResult EXCEPT ![p] = exhausted]
            /\ release(p, "settled")
            /\ cur' = [cur EXCEPT ![p] = 0]
            /\ jobs' = Append(handOff(js), Job(p, 0))
       ELSE /\ providers' = [prov EXCEPT ![PROVIDER_PRIORITY[i]].rateLimitedUntil = 0]
            /\ cur' = [cur EXCEPT ![p] = i]
            /\ pc' = [pc EXCEPT ![p] = "inflight"]
            /\ jobs' = js
            /\ UNCHANGED <<running, waiting, genResult>>

\* llmOnlyAnswer / findRelated up to the first await: the cache lookup, then
\* the cached text (parsed, confidence set, result returned) or a
\* generateCompletion call
fromCache(p, ph, t, js) ==
    LET command == IF ph = "llm" THEN AskCommand ELSE RelatedCommand
        own == IF ph = "llm" THEN LLM_ONLY ELSE RELATED
        key == makeCacheKey(command, QueryOf(p), LevelOf(p))
        cached == getCachedValue(cache, key, now)
    IN  /\ cache' = getCachedMap(cache, key, now)
        /\ IF isHit(cached)
              THEN /\ lastConfidence' = own
                   /\ toExecute(p, [t EXCEPT !.data = Data(own, cached.chars)], AdoptHops, js)
              ELSE /\ lastConfidence' = lastConfidence
                   /\ orchEnter(p, ph, t, js)

\* ExplainMCP.parseJsonResponse: JSON.parse of the text `null` succeeds with
\* null, and reading its explanation throws
explained(t, text, c) ==
    IF text = <<"null">> THEN [t EXCEPT !.threw = TRUE]
                         ELSE [t EXCEPT !.data = Data(c, text)]

\* ExplainMCP.handle up to the first await
explainFrom(p, t, js) ==
    LET key == makeCacheKey(ExplainCommand, QueryOf(p), LevelOf(p))
        cached == getCachedValue(cache, key, now)
    IN  /\ cache' = getCachedMap(cache, key, now)
        /\ lastConfidence' = lastConfidence
        /\ IF isHit(cached)
              THEN toExecute(p, explained(t, cached.chars, EXPLAIN_CACHED), 0, js)
              ELSE orchEnter(p, "explain", t, js)

\* the continuation of the function that awaited generateCompletion:
\* ragPipeline (whose rejection handle catches), llmOnlyAnswer, findRelated or
\* ExplainMCP.handle
orchSettle(p, js) ==
    LET t == task[p]
        g == genResult[p]
        key == makeCacheKey(IF phase[p] = "llm" THEN AskCommand
                            ELSE IF phase[p] = "related" THEN RelatedCommand
                            ELSE ExplainCommand, QueryOf(p), LevelOf(p))
    IN  IF phase[p] = "rag"
           THEN IF g.kind = "text"
                   THEN /\ lastConfidence' = lastConfidenceOf(t.chunks)
                        /\ cache' = cache
                        /\ toExecute(p, [t EXCEPT !.data = Data(lastConfidenceOf(t.chunks), g.text)],
                                     ReturnHops, js)
                   ELSE /\ pc' = [pc EXCEPT ![p] = "fallback"]
                        /\ jobs' = Append(js, Job(p, 0))
                        /\ UNCHANGED <<running, waiting, providers, cache, phase, cur,
                                       genResult, task, lastConfidence>>
           ELSE IF phase[p] = "explain"
                   THEN /\ lastConfidence' = lastConfidence
                        /\ IF g.kind = "text"
                              THEN /\ cache' = setCache(cache, key, g.text, DEFAULT_TTL_MS, now)
                                   /\ toExecute(p, explained(t, g.text, EXPLAIN_FRESH), 0, js)
                              ELSE /\ cache' = cache
                                   /\ toExecute(p, [t EXCEPT !.threw = TRUE], 0, js)
                   ELSE IF g.kind = "text"
                           THEN LET own == IF phase[p] = "llm" THEN LLM_ONLY ELSE RELATED IN
                                /\ cache' = setCache(cache, key, g.text, DEFAULT_TTL_MS, now)
                                /\ lastConfidence' = own
                                /\ toExecute(p, [t EXCEPT !.data = Data(own, g.text)],
                                             ReturnHops, js)
                           ELSE /\ UNCHANGED <<cache, lastConfidence>>
                                /\ toExecute(p, [t EXCEPT !.threw = TRUE], ReturnHops, js)

\* execute after `await this.handle(request)`: the response is built, and the
\* orchestrator's handler continues in the next microtask
orchExecute(p, js) ==
    LET t == task[p]
        h == IF t.threw THEN Threw ELSE Handled(t.data)
    IN  /\ task' = [task EXCEPT ![p].response =
                       execute(h, getConfidence(t.kind, t.data, lastConfidence))]
        /\ pc' = [pc EXCEPT ![p] = "executed"]
        /\ jobs' = Append(js, Job(p, 0))
        /\ UNCHANGED <<running, waiting, providers, cache, phase, cur, genResult,
                       lastConfidence>>

\* the handler is over: its locals are gone, the record keeps what it was
\* asked and what it returned
returned(t, result) == [NoTask EXCEPT !.kind = t.kind, !.result = result]

\* the handler rejects: an awaited execute() rejected and nothing catches it
rejects(p, t, js) ==
    /\ task' = [task EXCEPT ![p] = returned(t, [kind |-> "rejected", data |-> NoData])]
    /\ pc' = [pc EXCEPT ![p] = "finished"]
    /\ jobs' = js
    /\ UNCHANGED <<running, waiting, providers, cache, phase, cur, genResult, lastConfidence>>

\* handleAsk / handleExplain / handleRelated after the RAG or explain execute:
\* `response.data ?? fallback` (handleRelated returns response.data as it
\* is), the interaction is stored (storing may throw inside its handle), and
\* the result is returned
orchReturn(p, storeThrows, js) ==
    LET t == task[p]
        r == t.response
        stored == execute(IF storeThrows THEN Threw ELSE Handled(NoData), DEFAULT_CONFIDENCE)
        result == IF r.data.present THEN [kind |-> "answer", data |-> r.data]
                  ELSE IF t.kind = "related" THEN [kind |-> "null", data |-> NoData]
                  ELSE [kind |-> "fallback",
                        data |-> Data(IF t.kind = "ask" THEN FALLBACK ELSE 0, Sorry)]
    IN  IF r.rejected \/ (t.kind # "related" /\ stored.rejected)
           THEN rejects(p, t, js)
           ELSE /\ task' = [task EXCEPT ![p] = returned(t, result)]
                /\ pc' = [pc EXCEPT ![p] = "finished"]
                /\ jobs' = js
                /\ UNCHANGED <<running, waiting, providers, cache, phase, cur, genResult,
                               lastConfidence>>

\* A request arrives and runs to its first wait on the provider gate or the
\* microtask queue. Inputs: its kind, the rows retrieval returns, and which of
\* the preference, memory and prompt modules' handle() throw.
OrchStart(p, kind, rs, prefThrows, memThrows, promptThrows) ==
    LET pref == execute(IF prefThrows THEN Threw ELSE Handled(NoData), DEFAULT_CONFIDENCE)
        mem == execute(IF memThrows THEN Threw ELSE Handled(Data(0, <<UserTag(p)>>)),
                       DEFAULT_CONFIDENCE)
        prompt == execute(IF promptThrows THEN Threw ELSE Handled(Data(0, <<"p">>)),
                          DEFAULT_CONFIDENCE)
        \* memoryResponse.data?.history ?? []
        history == IF mem.data.present THEN mem.data.answer[1] ELSE "-"
        t == [NoTask EXCEPT !.kind = kind, !.history = history]
        chunks == relevantChunks(rs)
    IN  /\ pc[p] = "idle"
        /\ jobs = <<>>
        /\ orchFrame
        /\ IF kind = "related"
              THEN fromCache(p, "related", [t EXCEPT !.history = "-"], <<>>)
              ELSE IF pref.rejected \/ mem.rejected \/ (kind = "explain" /\ prompt.rejected)
                      THEN rejects(p, t, <<>>)
              ELSE IF kind = "explain"
                      THEN IF prompt.data.present
                              THEN explainFrom(p, t, <<>>)
                              ELSE \* `if (!prompt) throw`
                                   /\ UNCHANGED <<cache, lastConfidence>>
                                   /\ toExecute(p, [t EXCEPT !.threw = TRUE], 0, <<>>)
              ELSE IF Len(rs) # 0 /\ Len(chunks) # 0
                      THEN /\ UNCHANGED <<cache, lastConfidence>>
                           /\ orchEnter(p, "rag", [t EXCEPT !.chunks = chunks], <<>>)
                      ELSE \* ragPipeline returns null: handle goes on to llmOnlyAnswer
                           /\ task' = [task EXCEPT ![p] = t]
                           /\ pc' = [pc EXCEPT ![p] = "fallback"]
                           /\ jobs' = <<Job(p, 0)>>
                           /\ UNCHANGED <<running, waiting, providers, cache, phase, cur,
                                          genResult, lastConfidence>>

\* the provider in flight answers request p's attempt with completion c
OrchRespond(p, c) ==
    /\ pc[p] = "inflight"
    /\ jobs = <<>>
    /\ orchFrame
    /\ UNCHANGED <<cache, phase, task, lastConfidence>>
    /\ IF isFalsy(c)
          THEN orchLoop(p, cur[p] + 1, providers, <<>>)
          ELSE /\ genResult' = [genResult EXCEPT ![p] = Returned(c)]
               /\ release(p, "settled")
               /\ cur' = [cur EXCEPT ![p] = 0]
               /\ jobs' = Append(handOff(<<>>), Job(p, 0))
               /\ UNCHANGED providers

\* the provider in flight fails request p's attempt with error e
OrchReject(p, e) ==
    /\ pc[p] = "inflight"
    /\ jobs = <<>>
    /\ orchFrame
    /\ UNCHANGED <<cache, phase, task, lastConfidence>>
    /\ orchLoop(p, cur[p] + 1, handleError(providers, PROVIDER_PRIORITY[cur[p]], e, now), <<>>)

\* the first microtask of the queue runs: one more reaction of a promise
\* chain, or the continuation the request is waiting to run
RunJob(storeThrows) ==
    /\ Len(jobs) > 0
    /\ orchFrame
    /\ LET p == jobs[1].p
           js == Tail(jobs)
       IN  IF jobs[1].hops > 0
              THEN /\ jobs' = Append(js, Job(p, jobs[1].hops - 1))
                   /\ UNCHANGED <<running, waiting, providers, cache, pc, phase, cur,
                                  genResult, task, lastConfidence>>
              ELSE IF pc[p] = "acquired"
                      THEN /\ orchLoop(p, 1, providers, js)
                           /\ UNCHANGED <<cache, phase, task, lastConfidence>>
              ELSE IF pc[p] = "settled"
                      THEN orchSettle(p, js)
              ELSE IF pc[p] = "fallback"
                      THEN fromCache(p, "llm", task[p], js)
              ELSE IF pc[p] = "handled"
                      THEN orchExecute(p, js)
              ELSE orchReturn(p, storeThrows, js)

OrchInit == InitOver(Requests)

OrchNext ==
    \/ \E p \in Requests : \E kind \in KindsOf(p), rs \in OrchResults,
          prefThrows \in BOOLEAN, memThrows \in MemoryThrows(p), promptThrows \in BOOLEAN :
          OrchStart(p, kind, rs, prefThrows, memThrows, promptThrows)
    \/ \E p \in Requests : \E c \in Completions(p) : OrchRespond(p, c)
    \/ \E p \in Requests, e \in OrchErrors : OrchReject(p, e)
    \/ \E storeThrows \in BOOLEAN : RunJob(storeThrows)

OrchSpec == OrchInit /\ [][OrchNext]_vars

\* =================================================================== claims
Occurrences(s, k) == Cardinality({i \in 1..Len(s) : s[i] = k})
MaxOf(S) == CHOOSE x \in S : \A y \in S : y <= x
\* in this step, call p consulted slot k and skipped it / started an attempt on it
NewSkip(p, k) == k \in skipped'[p] /\ k \notin skipped[p]
NewAttempt(p, k) ==
    /\ Len(attempted'[p]) = Len(attempted[p]) + 1
    /\ attempted'[p][Len(attempted'[p])] = k
\* the calls that have been granted a gate slot and have not released it
Holding == {p \in DOMAIN pc : pc[p] \in {"acquired", "inflight"}}

\* C1: in every interleaving of concurrent generateCompletion calls, the calls
\* that hold a gate slot (granted, not yet released) never number more than
\* maxConcurrent, and the gate's running count never exceeds maxConcurrent.
C1_GateCap ==
    /\ running <= maxConcurrent
    /\ Cardinality(Holding) <= maxConcurrent

\* the gate is full while a further call is suspended in acquire
C1_Witness ==
    /\ Cardinality(Holding) = maxConcurrent
    /\ running = maxConcurrent
    /\ Len(waiting) > 0

\* C2 (as claimed): generateCompletion raises only if every configured
\* provider was attempted once during that call.
C2_RaisedOnlyAfterAllAttempted ==
    \A p \in DOMAIN pc :
        genResult[p].kind = "raised" =>
            \A k \in Slots : Occurrences(attempted[p], k) = 1

\* C2 (amended): generateCompletion raises only if every configured provider
\* was, during that call, either attempted exactly once or skipped because it
\* was inside its rate-limit cooldown when the loop reached it.
C2_RaisedOnlyAfterAllConsulted ==
    [][\A p \in DOMAIN pc :
          /\ \A k \in Slots : NewSkip(p, k) => now < providers[k].rateLimitedUntil
          /\ (genResult'[p].kind = "raised" /\ genResult[p].kind # "raised") =>
                \A k \in Slots :
                    \/ Occurrences(attempted'[p], k) = 1 /\ k \notin skipped'[p]
                    \/ Occurrences(attempted'[p], k) = 0 /\ k \in skipped'[p]]_vars

\* a call raised after attempting some providers and skipping a cooling one
C2_Witness ==
    \E p \in DOMAIN pc :
        /\ genResult[p].kind = "raised"
        /\ skipped[p] # {}
        /\ Len(attempted[p]) > 0

\* C3: a generateCompletion call that finds every provider cooling still
\* attempts one (the soonest to recover): it never fails without any attempt.
C3_NeverFailsWithoutAttempt ==
    \A p \in DOMAIN pc :
        genResult[p].kind = "raised" => Len(attempted[p]) > 0

\* C4: once a provider has answered 404, no later generateCompletion call
\* attempts it: a call never attempts a slot that was disabled when it began.
C4_DisabledNeverAttempted ==
    \A p \in DOMAIN pc :
        \A i \in 1..Len(attempted[p]) : attempted[p][i] \notin disabledAtCall[p]

\* C5 (as claimed): after a provider answers 429/402 at time t, no call starts
\* an attempt on it before t + 30 s, and the first call that consults it at or
\* after t + 30 s attempts it.
C5_CooldownFromEachAnswer ==
    [][\A p \in DOMAIN pc, k \in Slots :
          \A t \in pendingRL[k] :
              /\ NewAttempt(p, k) => now >= t + RATE_LIMIT_COOLDOWN_MS
              /\ NewSkip(p, k) => now < t + RATE_LIMIT_COOLDOWN_MS]_vars

\* C5 (amended): the 30 s run from the provider's most recent 429/402 answer:
\* no call starts an attempt on it before that answer + 30 s, a call that
\* consults it at or after that moment attempts it, and a provider is skipped
\* for no other reason.
C5_CooldownFromLatestAnswer ==
    [][\A p \in DOMAIN pc, k \in Slots :
          /\ NewSkip(p, k) => pendingRL[k] # {}
          /\ pendingRL[k] # {} =>
                /\ NewAttempt(p, k) =>
                      now >= MaxOf(pendingRL[k]) + RATE_LIMIT_COOLDOWN_MS
                /\ NewSkip(p, k) =>
                      now < MaxOf(pendingRL[k]) + RATE_LIMIT_COOLDOWN_MS]_vars

\* a provider that answered 429/402 to a call still running has since been
\* found recovered by a consultation (which reset its cooldown and attempted it)
C5_Witness ==
    \E q \in DOMAIN pc, k \in Slots :
        /\ k \in rlAnswered[q]
        /\ providers[k].rateLimitedUntil = 0
        /\ now >= TickMs + RATE_LIMIT_COOLDOWN_MS

\* C6: an attempt that fails by timeout, connection error or 5xx leaves that
\* provider's cooldown and active flag as they were, and a provider that has
\* failed that way is skipped by a later call only if a 429/402 answer of its
\* own put it in cooldown.
C6_TransientFailureNoStateChange ==
    [][\A p \in DOMAIN pc :
          /\ \A e \in ApiErrors :
                (isTransient(e) /\ Reject(p, e)) =>
                    providers'[PROVIDER_PRIORITY[cur[p]]] = providers[PROVIDER_PRIORITY[cur[p]]]
          /\ \A k \in everTransient : NewSkip(p, k) => pendingRL[k] # {}]_vars

\* the only call made so far failed transiently on a provider, and the same
\* caller's next call is attempting that provider
C6_Witness ==
    \E p \in DOMAIN pc :
        /\ pc[p] = "inflight"
        /\ calls[p] = 2
        /\ PROVIDER_PRIORITY[cur[p]] \in everTransient
        /\ \A q \in DOMAIN pc \ {p} : calls[q] = 0

\* C7: within one ask request no provider receives more than one generation
\* attempt.
C7_OneAttemptPerRequest ==
    \A p \in DOMAIN pc : \A k \in Slots : reqAttempts[p][k] <= 1

\* C8: if every provider of the chain answers a call with a rate-limit error,
\* the call has attempted each of them exactly once and has raised.
C8_AllRateLimitedRaises ==
    \A p \in DOMAIN pc :
        rlAnswered[p] = Slots =>
            /\ \A k \in Slots : Occurrences(attempted[p], k) = 1
            /\ Len(attempted[p]) = Len(PROVIDER_PRIORITY)
            /\ genResult[p].kind = "raised"

C8_Witness ==
    \E p \in DOMAIN pc :
        /\ rlAnswered[p] = Slots
        /\ genResult[p].kind = "raised"
        /\ pc[p] = "settled"

\* C9: waiters are resumed strictly in arrival order: a release resumes the
\* waiter that has waited longest, and a caller is granted a slot at once only
\* when nobody is waiting.
C9_FifoHandoff ==
    [][\A p \in DOMAIN pc :
          /\ (pc[p] = "waiting" /\ pc'[p] = "acquired") =>
                \A q \in DOMAIN pc \ {p} : pc[q] = "waiting" => ticket[p] < ticket[q]
          /\ (pc[p] = "idle" /\ pc'[p] = "acquired") => Len(waiting) = 0]_vars

\* three queued waiters have been resumed, in the order they arrived
C9_Witness ==
    /\ Len(served) = 3
    /\ ticket[served[1]] < ticket[served[2]]
    /\ ticket[served[2]] < ticket[served[3]]

\* C10: generateCompletion never returns an empty or whitespace-only text.
C10_NeverReturnsBlank ==
    \A p \in DOMAIN pc :
        genResult[p].kind = "text" => ~IsBlank(Str(genResult[p].text))

\* C11: whatever sequence of setCache and getCached calls is made, on any
\* string keys (the empty string included), the cache never holds more than
\* MAX_ENTRIES entries.
C11_CacheWithinCapacity == Len(cache) <= MAX_ENTRIES

\* position of key k in the history `recency` (0: absent)
RecencyRank(k) ==
    IF \E i \in 1..Len(recency) : recency[i] = k
       THEN CHOOSE i \in 1..Len(recency) : recency[i] = k
       ELSE 0
\* this step is a setCache call, or a row of them
SetCacheStep ==
    \/ \E k \in HotKeys, v \in Values, ttlMs \in Ttls : CacheSet(k, v, ttlMs)
    \/ \E ttlMs \in Ttls : CacheFill(FillSize, ttlMs)

\* C12: whenever a setCache call pushes entries out of the cache, every entry
\* it removes was accessed (written by setCache or returned by getCached) less
\* recently than every entry it leaves in place.
C12_EvictsLeastRecentlyAccessed ==
    [][SetCacheStep =>
          \A e \in Keys(cache) \ Keys(cache') :
              \A k \in Keys(cache) \cap Keys(cache') :
                  RecencyRank(e) < RecencyRank(k)]_vars

\* C13: after setCache(k, v, ttl), and as long as k is neither written again
\* nor evicted, getCached(k) returns v at every time before the write + ttl,
\* and at every time after it returns null and leaves no entry for k.
C13_RoundTrip ==
    [][\A k \in HotKeys :
          (CacheGet(k) /\ live[k].written) =>
              /\ now < live[k].at + live[k].ttl =>
                    /\ got'.value = Str(live[k].value)
                    /\ k \in Keys(cache')
              /\ now > live[k].at + live[k].ttl =>
                    /\ got'.value = NoContent
                    /\ k \notin Keys(cache')]_vars

\* the last getCached read a key after its TTL had elapsed, got null, and the
\* key is gone; an earlier state of the same kind returned the value
C13_Witness ==
    /\ got.called
    /\ live[got.key].written
    /\ now > live[got.key].at + live[got.key].ttl
    /\ got.value = NoContent
    /\ got.key \notin Keys(cache)
    /\ nextSweep = CLEANUP_INTERVAL_MS

\* C14: as long as the process runs, the cache is again and again free of
\* expired entries without any read or write: each entry whose TTL has
\* elapsed is eventually removed by the periodic sweep.
C14_ExpiredEventuallySwept ==
    []<>(\A i \in 1..Len(cache) : ~(now > cache[i].expiresAt))

\* an entry was written, its TTL elapsed, no getCached call was ever made and
\* no write evicted it, and the entry is gone
C14_Witness ==
    \E k \in HotKeys :
        /\ live[k].written
        /\ now > live[k].at + live[k].ttl
        /\ k \notin Keys(cache)
        /\ ~got.called

\* in this step p calls queryDocuments or addDocuments
StoreCall(p) == StoreQuery(p) \/ StoreIngest(p, TRUE)

\* C16: after a connection attempt to the vector store has failed, no query or
\* add call starts another connection attempt during the next 60 s, and the
\* first call made once the 60 s are over starts one.
C16_ReconnectAfterCooldown ==
    [][\A p \in DOMAIN pc :
          (StoreCall(p) /\ lastConnFailAt > 0) =>
              /\ now < lastConnFailAt + RETRY_INTERVAL_MS => pc'[p] # "connecting"
              /\ now >= lastConnFailAt + RETRY_INTERVAL_MS => pc'[p] = "connecting"]_vars

\* C17: after a query to the vector store has failed, the backend is marked
\* unavailable, and a call made during the next 60 s neither connects to the
\* backend nor queries it: it ends at once, a query with the empty result.
C17_QueryFailureStartsCooldown ==
    [][\A p \in DOMAIN pc :
          /\ QueryDone(p, "fail") => isRagDisabled'
          /\ (StoreCall(p) /\ lastQueryFailAt > 0
                /\ now < lastQueryFailAt + RETRY_INTERVAL_MS) =>
                 /\ pc'[p] = "idle"
                 /\ op'[p] = "query" => outcome'[p] = EmptyResult]_vars

\* C18: queryDocuments never raises, and a call that finds the backend in its
\* cooldown, whose connection attempt fails, or whose query fails returns the
\* empty result.
C18_QueryNeverRaises ==
    [][\A p \in DOMAIN pc :
          /\ op'[p] = "query" => outcome'[p] # Thrown
          /\ ( \/ StoreQuery(p) /\ isRagDisabled /\ now - lastRetryAt < RETRY_INTERVAL_MS
               \/ op[p] = "query" /\ ConnectDone(p, FALSE)
               \/ op[p] = "query" /\ CountDone(p, FALSE)
               \/ QueryDone(p, "fail") ) =>
                 /\ pc'[p] = "idle"
                 /\ outcome'[p] = EmptyResult]_vars

\* the only caller so far has had a query fail just now and holds the empty
\* result of that call
C18_Witness ==
    \E p \in DOMAIN pc :
        /\ op[p] = "query"
        /\ pc[p] = "idle"
        /\ lastQueryFailAt = now
        /\ ~collection
        /\ outcome[p] = EmptyResult
        /\ \A q \in DOMAIN pc \ {p} : calls[q] = 0

\* C19: a failure of the add operation never reaches the caller of the
\* ingestion request: the request ends with its result, the failure recorded
\* in the result's errors.
C19_AddFailureNotRaised ==
    [][\A p \in DOMAIN pc :
          /\ op'[p] = "ingest" => outcome'[p] # Thrown
          /\ AddDone(p, FALSE) =>
                /\ pc'[p] = "idle"
                /\ outcome'[p].kind = "ingested"
                /\ Len(outcome'[p].raw) > 0]_vars

\* an ingestion request has ended with its result after its add failed
C19_Witness ==
    \E p \in DOMAIN pc :
        /\ op[p] = "ingest"
        /\ pc[p] = "idle"
        /\ outcome[p] = IngestResult(<<"ChromaDB storage failed">>)

EntersLlmOnly(p) ==
    \/ \E r \in Retrievals : StartRequest(p, r) /\ ~grounded(r)
    \/ Settle(p) /\ phase[p] = "rag" /\ genResult[p].kind = "raised"

C20_RetrievalFailureDegrades ==
    [][\A p \in DOMAIN pc :
          /\ \A r \in Retrievals :
                (StartRequest(p, r) /\ ~grounded(r)) =>
                    \/ pc'[p] = "done" /\ outcome'[p].kind = "llm-only"
                    \/ pc'[p] \in {"acquired", "waiting"} /\ phase'[p] = "llm"
          /\ (req[p].embedded /\ ~req[p].grounded /\ pc[p] # "done" /\ pc'[p] = "done") =>
                \/ outcome'[p].kind = "llm-only"
                \/ /\ outcome'[p].kind = "failed"
                   /\ phase[p] = "llm"
                   /\ genResult[p].kind = "raised"]_vars

\* a request without usable retrieval (and nothing cached) has been answered
\* by the LLM-only path
C20_Witness ==
    \E p \in DOMAIN pc :
        /\ req[p].embedded
        /\ ~req[p].grounded
        /\ ~req[p].cacheHit
        /\ pc[p] = "done"
        /\ outcome[p].kind = "llm-only"

\* C30: a setCache call on a key already in the cache removes no other key,
\* whatever the size of the cache.
C30_OverwriteKeepsOtherKeys ==
    [][\A k \in HotKeys :
          ((\E v \in Values, ttlMs \in Ttls : CacheSet(k, v, ttlMs)) /\ k \in Keys(cache)) =>
              Keys(cache) \subseteq Keys(cache')]_vars

\* C25: within a user's window check(userId) returns false for the first
\* perUser calls and true for every later call of the window, whatever calls
\* are made for other users; the first call after the window has expired
\* returns false again.
C25_WindowedLimit ==
    [][\A u \in Users :
          Check(u) =>
              /\ checked'.user = u
              /\ ~InWindow(window[u], now) => ~checked'.blocked
              /\ InWindow(window[u], now) =>
                    (checked'.blocked <=> window[u].calls >= perUser)]_vars

\* a user's first call after an earlier window expired has been allowed while
\* the other user is over the limit in a window still open
C25_Witness ==
    \E u, o \in Users :
        /\ u # o
        /\ checked = [user |-> u, blocked |-> FALSE]
        /\ window[u].calls = 1
        /\ window[u].start > TickMs
        /\ limits[o].count > perUser
        /\ ~(now > limits[o].resetAt)

\* strategy k of parseJSON, as the code tries it
Strategy(k, cleaned) ==
    IF k = 1 THEN direct(cleaned)
    ELSE IF k = 2 THEN extractObject(cleaned)
    ELSE IF k = 3 THEN afterNewline(cleaned)
    ELSE IF k = 4 THEN answerField(cleaned)
    ELSE rawAnswer(cleaned)
\* a text without its line breaks, and without a fence marker at either end
Pieces(s) == SelectSeq(s, LAMBDA t : t # "\n")
Unfenced(y) ==
    LET a == IF Len(y) > 0 /\ y[1] = "fence" THEN Tail(y) ELSE y
    IN  IF Len(a) > 0 /\ a[Len(a)] = "fence" THEN SubSeq(a, 1, Len(a) - 1) ELSE a

\* C24: parseJSON never throws, whatever the model output: it returns what the
\* first of its strategies (in their order) that succeeds gives, and when none
\* succeeds it returns the cleaned raw text as the answer, with empty lists of
\* followups and takeaways.
C24_ParseNeverThrows ==
    parsed.end # "none" =>
        /\ parsed.end = "returned"
        /\ parsed.by \in 1..5
        /\ parsed = Strategy(parsed.by, cleanRaw(rawResponse))
        /\ \A k \in 1..(parsed.by - 1) : Strategy(k, cleanRaw(rawResponse)).end # "returned"
        /\ parsed.by = 5 =>
              /\ parsed.hasAnswer
              /\ Pieces(parsed.answer) = Unfenced(Pieces(rawResponse))
              /\ parsed.lists = "empty"

\* parseJSON was given a fenced `null`: JSON.parse succeeds, reading the
\* answer of null throws, no other strategy applies, and the text is returned
C24_Witness ==
    /\ parsed.end = "returned"
    /\ parsed.by = 5
    /\ Len(rawResponse) > 0
    /\ rawResponse[1] = "fence"
    /\ JSONparse(cleanRaw(rawResponse)) = "null"

\* no generateCompletion call is outstanding
NoCallOutstanding == \A p \in DOMAIN pc : pc[p] \in {"idle", "done"}

\* C26: when every provider call terminates, every generateCompletion call
\* gives its gate slot back exactly once, whether it returns or raises: the
\* gate's count is the number of calls that hold a slot, every call suspended
\* at the gate is eventually granted a slot, and whenever no call is
\* outstanding the gate is at running = 0 with an empty wait list.
C26_GateDrains ==
    /\ [](running = Cardinality(Holding))
    /\ \A p \in FloodCallers : (pc[p] = "waiting") ~> (pc[p] # "waiting")
    /\ [](NoCallOutstanding => running = 0 /\ waiting = <<>>)
    /\ \A p \in FloodCallers : (pc[p] # "idle") ~> (pc[p] = "idle")

\* a call has raised and handed its slot on: it has settled, the caller it
\* resumed holds the slot, and the third call is still in flight
C26_Witness ==
    \E p, q, r \in FloodCallers :
        /\ pc[q] = "settled" /\ genResult[q].kind = "raised"
        /\ pc[p] = "acquired"
        /\ pc[r] = "inflight"
        /\ running = maxConcurrent
        /\ waiting = <<>>

\* C22: when every row the vector store returned has a similarity
\* (1 - distance) below 0.3, the answer carries no citation and its confidence
\* is below 0.6.
C22_LowSimilarityUngrounded ==
    (scored.done /\ \A i \in 1..Len(results) : Pct(100) - Pct(results[i].distance) < Pct(30)) =>
        /\ Len(scored.citations) = 0
        /\ scored.confidence < Pct(60)

\* C29 (as claimed): an answer that carries at least one citation never has a
\* confidence below that of the LLM-only answer, 0.5.
C29_GroundedAtLeastLlmOnly ==
    (scored.done /\ Len(scored.citations) > 0) => scored.confidence >= LLM_ONLY

\* C29 (amended): an answer that carries at least one citation has a
\* confidence of at least 0.4, and of at least 0.5 exactly when the average
\* similarity of its chunks is 0.4 or more.
C29_GroundedAtLeastThreshold ==
    (scored.done /\ Len(scored.citations) > 0) =>
        /\ scored.confidence >= Pct(40)
        /\ scored.confidence <= Pct(100)
        /\ scored.confidence >= LLM_ONLY <=>
              sum(scored.citations) >= Len(scored.citations) * Pct(40)

\* more rows than rerankTop were kept, the weakest exactly at the threshold,
\* and the answer's confidence is 1.0
C29_Witness ==
    /\ scored.done
    /\ Len(results) > rerankTop
    /\ Len(scored.citations) = rerankTop
    /\ \E i \in 1..Len(results) : similarityOf(results[i]) = Pct(30)
    /\ scored.confidence = Pct(100)

\* C27: when several requests are handled concurrently by the one RAGMCP
\* instance, the confidence in the metadata of each successful response equals
\* the confidence in that response's own data.
C27_OwnConfidence ==
    \A p \in DOMAIN task :
        (task[p].kind \in {"ask", "related"} /\ task[p].response.done
            /\ task[p].response.success)
        => task[p].response.confidence = task[p].response.data.confidence

\* a grounded response has been built with confidence 1.0 while a second
\* request is with the provider and a third has been answered LLM-only or with
\* related topics, at another confidence
C27_Witness ==
    \E p, q, r \in DOMAIN task :
        /\ pc[p] = "executed" /\ task[p].kind = "ask" /\ task[p].response.success
        /\ task[p].response.confidence = Pct(100)
        /\ pc[q] = "inflight"
        /\ pc[r] = "finished" /\ task[r].result.kind = "answer"
        /\ task[r].result.data.confidence \in {LLM_ONLY, RELATED}

\* C21: whatever fails (provider, retrieval, parsing, preference, memory or
\* prompt module, storing), handleAsk and handleExplain never reject: they
\* return a genuine answer (the data of a successful response) or the
\* structured fallback result.
C21_NeverRejects ==
    \A p \in DOMAIN task :
        (pc[p] = "finished" /\ task[p].kind \in {"ask", "explain"})
        => /\ task[p].result.kind \in {"answer", "fallback"}
           /\ task[p].result.data.present
           /\ (task[p].result.kind = "fallback" => task[p].result.data.answer = Sorry)

\* an ask request whose provider calls all failed and an explain request whose
\* module threw have both been given the fallback result
C21_Witness ==
    \E p, q \in DOMAIN task :
        /\ pc[p] = "finished" /\ task[p].kind = "ask" /\ task[p].result.kind = "fallback"
        /\ pc[q] = "finished" /\ task[q].kind = "explain" /\ task[q].result.kind = "fallback"
        /\ \A k \in Slots : cooling(providers, k, now)

\* C23: every result returned for an ask or related request (grounded,
\* LLM-only, related topics, fallback) has a confidence within [0, 1].
C23_ConfidenceInRange ==
    \A p \in DOMAIN task :
        (pc[p] = "finished" /\ task[p].kind \in {"ask", "related"} /\ task[p].result.data.present)
        => /\ task[p].result.data.confidence >= 0
           /\ task[p].result.data.confidence <= Pct(100)

\* three requests have returned: a grounded answer whose boosted average plus
\* 0.1 was clamped to 1.0, an LLM-only or related answer, and the fallback
C23_Witness ==
    \E p, q, r \in DOMAIN task :
        /\ pc[p] = "finished" /\ task[p].result.kind = "answer"
        /\ task[p].result.data.confidence = Pct(100)
        /\ pc[q] = "finished" /\ task[q].result.kind = "answer"
        /\ task[q].result.data.confidence \in {LLM_ONLY, RELATED}
        /\ pc[r] = "finished" /\ task[r].kind = "ask" /\ task[r].result.kind = "fallback"
        /\ task[r].result.data.confidence = FALLBACK

\* C28: the answer a user gets to a question does not depend on another
\* user's history. The provider's text repeats the history its prompt holds, so
\* the property reads: an answer given to a user repeats that user's own
\* history (or none, when the memory lookup failed), never another user's.
C28_OwnHistoryOnly ==
    \A p \in DOMAIN task :
        (pc[p] = "finished" /\ task[p].kind = "ask" /\ task[p].result.kind = "answer")
        => task[p].result.data.answer \in {<<UserTag(p)>>, <<"-">>}

====
